---------------------------- MODULE Spec2Model ----------------------------
(***************************************************************************)
(* Model of the NBA prediction engine (src/lambdas/predict/handler.py) and *)
(* of the lambdas around it: process_stats, verify_results, train_model.   *)
(*                                                                         *)
(* Python floats are modelled as exact rationals <<num, den>> with         *)
(* den > 0 and gcd(num, den) = 1; None is the empty tuple.  A Python dict  *)
(* is a function whose DOMAIN is the set of keys that are present.         *)
(* Binary representation error of IEEE doubles is not modelled: round()    *)
(* is round-half-to-even on the exact value, as Python's round() is on     *)
(* the exact value of the double.                                          *)
(***************************************************************************)
EXTENDS Integers, Sequences, FiniteSets, TLC

(***************************************************************************)
(* Exact arithmetic standing for Python float arithmetic.                  *)
(***************************************************************************)
None == << >>

Abs(i) == IF i < 0 THEN -i ELSE i

RECURSIVE GCD(_, _)
GCD(a, b) == IF b = 0 THEN a ELSE GCD(b, a % b)

Rat(n, d) ==
    LET s == IF d < 0 THEN -1 ELSE 1
        g == GCD(Abs(n), Abs(d))
    IN  << (s * n) \div g, (s * d) \div g >>

Zero == << 0, 1 >>

FromInt(i) == << i, 1 >>

RAdd(x, y) ==
    LET g == GCD(x[2], y[2])
    IN  Rat(x[1] * (y[2] \div g) + y[1] * (x[2] \div g), (x[2] \div g) * y[2])

RNeg(x) == << -x[1], x[2] >>

RSub(x, y) == RAdd(x, RNeg(y))

RMul(x, y) ==
    LET a == Rat(x[1], y[2])
        b == Rat(y[1], x[2])
    IN  Rat(a[1] * b[1], a[2] * b[2])

RDiv(x, y) == RMul(x, Rat(y[2], y[1]))

RLt(x, y) ==
    LET g == GCD(x[2], y[2])
    IN  x[1] * (y[2] \div g) < y[1] * (x[2] \div g)

RLe(x, y) ==
    LET g == GCD(x[2], y[2])
    IN  x[1] * (y[2] \div g) <= y[1] * (x[2] \div g)

RAbs(x) == << Abs(x[1]), x[2] >>

RMin(x, y) == IF RLe(x, y) THEN x ELSE y

RMax(x, y) == IF RLe(x, y) THEN y ELSE x

(* round(x, ndigits): scale == 10^ndigits, ties go to the even neighbour.  *)
Round(x, scale) ==
    LET n == x[1] * scale
        f == n \div x[2]
        r == n - f * x[2]
        q == IF 2 * r < x[2] THEN f
             ELSE IF 2 * r > x[2] THEN f + 1
             ELSE IF f % 2 = 0 THEN f ELSE f + 1
    IN  Rat(q, scale)

(* d.get(k, default) *)
Get(d, k, default) == IF k \in DOMAIN d THEN d[k] ELSE default

(* float(v or default): None and 0 are falsy.                              *)
FloatOr(v, default) == IF v = None \/ v[1] = 0 THEN default ELSE v

(***************************************************************************)
(* Module constants of predict/handler.py.                                 *)
(***************************************************************************)
WindowKeys == << "last_5", "last_10", "last_20" >>

(* the 5- and 20-record weights exchanged *)
WEIGHTS_Swapped == [last_5 |-> Rat(25, 100), last_10 |-> Rat(30, 100), last_20 |-> Rat(45, 100)]

WEIGHTS == [last_5 |-> Rat(45, 100), last_10 |-> Rat(30, 100), last_20 |-> Rat(25, 100)]

HIGH_CONFIDENCE == 15

MEDIUM_CONFIDENCE == 8

TREND_MULTIPLIER == Rat(5, 100)

ML_BLEND_WEIGHT == Rat(6, 10)

STAT_TARGETS == { "pts", "reb", "ast", "fg3m" }

(***************************************************************************)
(* predict_player_stat, statement by statement.                            *)
(***************************************************************************)
(* value = float(window_data.get(stat_field, 0) or 0) for one window       *)
WindowValue(processed, stat, w) ==
    FloatOr(Get(Get(processed.rolling_averages, w, << >>), stat, Zero), Zero)

(* the loop over WEIGHTS.items(): windows 1..k of WindowKeys               *)
RECURSIVE WeightedSum(_, _, _)
WeightedSum(processed, stat, k) ==
    IF k = 0 THEN Zero
    ELSE LET w == WindowKeys[k]
             v == WindowValue(processed, stat, w)
             rest == WeightedSum(processed, stat, k - 1)
         IN  IF RLt(Zero, v) THEN RAdd(rest, RMul(v, WEIGHTS[w])) ELSE rest

(* every window's weight is counted, contributing or not *)
RECURSIVE TotalWeight_AllWindows(_, _, _)
TotalWeight_AllWindows(processed, stat, k) ==
    IF k = 0 THEN Zero
    ELSE RAdd(TotalWeight_AllWindows(processed, stat, k - 1), WEIGHTS[WindowKeys[k]])

RECURSIVE TotalWeight(_, _, _)
TotalWeight(processed, stat, k) ==
    IF k = 0 THEN Zero
    ELSE LET w == WindowKeys[k]
             v == WindowValue(processed, stat, w)
             rest == TotalWeight(processed, stat, k - 1)
         IN  IF RLt(Zero, v) THEN RAdd(rest, WEIGHTS[w]) ELSE rest

(* the weighted sum is not divided by the total weight *)
BasePrediction_Unnormalised(processed, stat) == WeightedSum(processed, stat, 3)

BasePrediction(processed, stat) ==
    RDiv(WeightedSum(processed, stat, 3), TotalWeight(processed, stat, 3))

TrendOf(processed, stat) == FloatOr(Get(processed.trends, stat, Zero), Zero)

TrendAdjustment(base, trend) ==
    RMul(RMul(base, RDiv(trend, FromInt(100))), TREND_MULTIPLIER)

WaPrediction(processed, stat) ==
    LET base == BasePrediction(processed, stat)
    IN  RAdd(base, TrendAdjustment(base, TrendOf(processed, stat)))

(* any supplied score is blended, positive or not *)
UsesModel_AnyScore(ml) == ml # None

UsesModel(ml) == ml # None /\ RLt(Zero, ml)

(* the blend weight is applied to both terms *)
AdjustedPrediction_SameWeight(wa, ml) ==
    IF UsesModel(ml)
    THEN RAdd(RMul(ML_BLEND_WEIGHT, ml), RMul(ML_BLEND_WEIGHT, wa))
    ELSE wa

AdjustedPrediction(wa, ml) ==
    IF UsesModel(ml)
    THEN RAdd(RMul(ML_BLEND_WEIGHT, ml), RMul(RSub(FromInt(1), ML_BLEND_WEIGHT), wa))
    ELSE wa

PredictionMethod(ml) == IF UsesModel(ml) THEN "ensemble" ELSE "weighted_avg"

ConsistencyOf(processed, stat) ==
    FloatOr(Get(processed.consistency, stat, FromInt(50)), FromInt(50))

HasLine(ln) == ln # None /\ RLt(Zero, ln)

(* the edge falls back to the prediction when there is no line *)
Edge_NoLineFallback(adjusted, ln) ==
    IF HasLine(ln)
    THEN RMul(RDiv(RSub(adjusted, ln), ln), FromInt(100))
    ELSE adjusted

Edge(adjusted, ln) ==
    IF HasLine(ln)
    THEN RMul(RDiv(RSub(adjusted, ln), ln), FromInt(100))
    ELSE Zero

(* strict comparisons against the thresholds *)
Recalibrate_Strict(c, edge) ==
    IF RLt(FromInt(HIGH_CONFIDENCE), RAbs(edge))
    THEN RMin(FromInt(95), RAdd(c, FromInt(15)))
    ELSE IF RLt(FromInt(MEDIUM_CONFIDENCE), RAbs(edge))
    THEN RMin(FromInt(90), RAdd(c, FromInt(5)))
    ELSE RMax(FromInt(20), RSub(c, FromInt(10)))

Recalibrate(c, edge) ==
    IF RLe(FromInt(HIGH_CONFIDENCE), RAbs(edge))
    THEN RMin(FromInt(95), RAdd(c, FromInt(15)))
    ELSE IF RLe(FromInt(MEDIUM_CONFIDENCE), RAbs(edge))
    THEN RMin(FromInt(90), RAdd(c, FromInt(5)))
    ELSE RMax(FromInt(20), RSub(c, FromInt(10)))

ConfidenceScore(c, edge, ln) ==
    IF HasLine(ln) THEN Recalibrate(c, edge) ELSE c

(* inclusive comparisons against the threshold *)
Recommendation_Inclusive(edge, ln) ==
    IF HasLine(ln)
    THEN IF RLe(FromInt(MEDIUM_CONFIDENCE), edge) THEN "OVER"
         ELSE IF RLe(edge, FromInt(-MEDIUM_CONFIDENCE)) THEN "UNDER"
         ELSE "HOLD"
    ELSE "HOLD"

Recommendation(edge, ln) ==
    IF HasLine(ln)
    THEN IF RLt(FromInt(MEDIUM_CONFIDENCE), edge) THEN "OVER"
         ELSE IF RLt(edge, FromInt(-MEDIUM_CONFIDENCE)) THEN "UNDER"
         ELSE "HOLD"
    ELSE "HOLD"

(* strict comparisons against the label thresholds *)
ConfidenceLabel_Strict(score) ==
    IF RLt(FromInt(75), score) THEN "HIGH"
    ELSE IF RLt(FromInt(50), score) THEN "MEDIUM"
    ELSE "LOW"

ConfidenceLabel(score) ==
    IF RLe(FromInt(75), score) THEN "HIGH"
    ELSE IF RLe(FromInt(50), score) THEN "MEDIUM"
    ELSE "LOW"

NoPrediction == [returned |-> "None"]

predict_player_stat(processed, stat, ln, ml) ==
    IF TotalWeight(processed, stat, 3) = Zero
    THEN NoPrediction
    ELSE LET base == BasePrediction(processed, stat)
             trend == TrendOf(processed, stat)
             adjustment == TrendAdjustment(base, trend)
             wa == RAdd(base, adjustment)
             adjusted == AdjustedPrediction(wa, ml)
             c == ConsistencyOf(processed, stat)
             edge == Edge(adjusted, ln)
             score == ConfidenceScore(c, edge, ln)
         IN  [ returned |-> "Prediction",
               prediction |-> Round(adjusted, 10),
               line |-> ln,
               edge_pct |-> Round(edge, 10),
               recommendation |-> Recommendation(edge, ln),
               confidence_score |-> Round(score, 10),
               confidence_label |-> ConfidenceLabel(score),
               trend |-> Round(trend, 10),
               consistency |-> Round(c, 10),
               prediction_method |-> PredictionMethod(ml),
               ml_prediction |-> ml,
               wa_prediction |-> Round(wa, 10),
               breakdown |->
                   [ last_5_avg |-> WindowValue(processed, stat, "last_5"),
                     last_10_avg |-> WindowValue(processed, stat, "last_10"),
                     last_20_avg |-> WindowValue(processed, stat, "last_20"),
                     base_prediction |-> Round(base, 10),
                     trend_adjustment |-> Round(adjustment, 100) ] ]

(***************************************************************************)
(* ml_predict: models is the set of statistics with a loaded regressor,    *)
(* features is None or a feature vector, outcome is what the regressor's   *)
(* predict() does on this call (raise, or return a score).                 *)
(***************************************************************************)
FeatureVector == << "features" >>

NotCalled == [called |-> FALSE, raised |-> FALSE, score |-> None]

Raises == [called |-> TRUE, raised |-> TRUE, score |-> None]

Returns(s) == [called |-> TRUE, raised |-> FALSE, score |-> s]

ml_predict(registry, features, stat, outcome) ==
    IF stat \notin registry \/ features = None THEN None
    ELSE IF outcome.raised THEN None
    ELSE Round(outcome.score, 10)

(***************************************************************************)
(* Inputs.  Window means carry two decimals (calculate_rolling_averages    *)
(* rounds to 2), trends two, consistency scores one.                       *)
(***************************************************************************)
PredictedStats == { "pts" }

CommonMeans == { None, Zero, Rat(253, 100), FromInt(23), FromInt(27) }

Means5 == CommonMeans \cup { FromInt(28) }

Means10 == CommonMeans \cup { FromInt(25) }

Means20 == CommonMeans \cup { FromInt(24) }

Trends == { Zero, FromInt(5), FromInt(-10) }

Consistencies == { None, Zero, Rat(255, 10), FromInt(60), FromInt(72), FromInt(90) }

(* market lines: none, 0, 25.5 and the multiples of 5 from 20 to          *)
(* 5 * MaxLineStep                                                        *)
MaxLineStep == 5

Lines == { None, Zero, Rat(255, 10) } \cup { FromInt(5 * k) : k \in 4..MaxLineStep }

Scores == { Rat(-3, 2), Zero, Rat(3004, 100) }

Registries == { {}, { "pts" } }

(* {stat: v} when v is present, {} otherwise *)
Entry(stat, v) == IF v = None THEN << >> ELSE (stat :> v)

Rolling(stat, a, b, c) ==
    LET val == [last_5 |-> a, last_10 |-> b, last_20 |-> c]
    IN  [w \in { k \in DOMAIN val : val[k] # None } |-> (stat :> val[w])]

ProcessedStats(stat, a, b, c, t, cs) ==
    [ rolling_averages |-> Rolling(stat, a, b, c),
      trends |-> Entry(stat, t),
      consistency |-> Entry(stat, cs) ]

(***************************************************************************)
(* State: the arguments of one predict_player_stat call made for one       *)
(* (player, statistic) of the prediction run, and its result.              *)
(***************************************************************************)
VARIABLES processed_stats, stat_field, line, models, ml_features, regressor,
          ml_prediction, result, caller, pc

predictVars == << processed_stats, stat_field, line, models, ml_features, regressor,
                  ml_prediction, result, caller, pc >>

(***************************************************************************)
(* State of the other components.  Each component has its own              *)
(* specification; in the specification of one component the others stay    *)
(* idle.                                                                   *)
(*   verify_results: the predictions and game rows in the tables, the      *)
(*     loop position, the counters, the results table and the summary.     *)
(*   process_stats: a game log (most recent first), a second log of the    *)
(*     same length, and what the three calculations return.                *)
(*   feature builders: a player's game rows, the call context, and what    *)
(*     build_ml_features / build_training_data return.                     *)
(*   line matcher: the player name, the lines mapping, the lookup result.  *)
(*   raw rows: stored rows with values as the table may hold them, and     *)
(*     the outcome (value or exception) of the calculation called on them. *)
(*   minutes: a minutes string and what parse_minutes returns for it.      *)
(*   pipeline: the day, one player's game rows, the processed-stats table, *)
(*     and the positions of a process_stats run and a predict run.         *)
(*   context resolver: the game and player rows of the lookback window     *)
(*     and the per-team aggregates a resolver returns.                     *)
(*   model registry: the bucket's models, _ml_models, _models_loaded, the  *)
(*     load attempts made and what each load_ml_models call returned.      *)
(***************************************************************************)
VARIABLES predictions_table, stats_table, verify_pc, verify_i, verification,
          counters, results_table, summary

VARIABLES game_logs, other_logs, stats_out, stats_pc

VARIABLES player_games, feature_ctx, features_out, features_pc

VARIABLES player_name, lines_dict, matched, match_pc

verifyVars == << predictions_table, stats_table, verify_pc, verify_i, verification,
                 counters, results_table, summary >>

statsVars == << game_logs, other_logs, stats_out, stats_pc >>

featureVars == << player_games, feature_ctx, features_out, features_pc >>

matchVars == << player_name, lines_dict, matched, match_pc >>

VARIABLES raw_logs, raw_processed, raw_out, raw_pc

rawVars == << raw_logs, raw_processed, raw_out, raw_pc >>

VARIABLES minutes_str, minutes_out, minutes_pc

minutesVars == << minutes_str, minutes_out, minutes_pc >>

VARIABLES clock, player_rows, processed_table, snapshot_source, last_stored, process_run, predict_run

pipelineVars == << clock, player_rows, processed_table, snapshot_source, last_stored, process_run, predict_run >>

VARIABLES game_items, stat_items, context_out, context_pc

contextVars == << game_items, stat_items, context_out, context_pc >>

VARIABLES RAW_DATA_BUCKET, bucket_models, ml_models, models_loaded, load_attempts, load_returned

registryVars == << RAW_DATA_BUCKET, bucket_models, ml_models, models_loaded, load_attempts, load_returned >>

vars == << predictVars, verifyVars, statsVars, featureVars, matchVars,
          rawVars,
          minutesVars,
          pipelineVars,
          contextVars,
          registryVars >>

PredictIdle ==
    /\ processed_stats = << >>
    /\ stat_field = "pts"
    /\ line = None
    /\ models = {}
    /\ ml_features = None
    /\ regressor = [called |-> FALSE, raised |-> FALSE, score |-> None]
    /\ ml_prediction = None
    /\ result = [returned |-> "None"]
    /\ caller = "none"
    /\ pc = "idle"

VerifyIdle ==
    /\ predictions_table = << >>
    /\ stats_table = << >>
    /\ verify_pc = "idle"
    /\ verify_i = 0
    /\ verification = << >>
    /\ counters = << >>
    /\ results_table = << >>
    /\ summary = << >>

StatsIdle ==
    /\ game_logs = << >>
    /\ other_logs = << >>
    /\ stats_out = << >>
    /\ stats_pc = "idle"

FeaturesIdle ==
    /\ player_games = << >>
    /\ feature_ctx = << >>
    /\ features_out = << >>
    /\ features_pc = "idle"

MatchIdle ==
    /\ player_name = << >>
    /\ lines_dict = << >>
    /\ matched = << >>
    /\ match_pc = "idle"

RawIdle ==
    /\ raw_logs = << >>
    /\ raw_processed = << >>
    /\ raw_out = << >>
    /\ raw_pc = "idle"

MinutesIdle ==
    /\ minutes_str = << >>
    /\ minutes_out = << >>
    /\ minutes_pc = "idle"

PipelineIdle ==
    /\ clock = 0
    /\ player_rows = << >>
    /\ processed_table = << >>
    /\ snapshot_source = << >>
    /\ last_stored = << >>
    /\ process_run = << >>
    /\ predict_run = << >>

ContextIdle ==
    /\ game_items = << >>
    /\ stat_items = << >>
    /\ context_out = << >>
    /\ context_pc = "idle"

RegistryIdle ==
    /\ RAW_DATA_BUCKET = ""
    /\ bucket_models = << >>
    /\ ml_models = << >>
    /\ models_loaded = FALSE
    /\ load_attempts = << >>
    /\ load_returned = << >>

Init ==
    /\ stat_field \in PredictedStats
    /\ \E a \in Means5, b \in Means10, c \in Means20, t \in Trends, cs \in Consistencies :
           processed_stats = ProcessedStats(stat_field, a, b, c, t, cs)
    /\ line \in Lines
    /\ models = {}
    /\ ml_features = None
    /\ regressor = NotCalled
    /\ ml_prediction = None
    /\ result = NoPrediction
    /\ caller = "none"
    /\ pc = "start"
    /\ VerifyIdle /\ StatsIdle /\ FeaturesIdle /\ MatchIdle /\ RawIdle /\ MinutesIdle /\ PipelineIdle /\ ContextIdle /\ RegistryIdle

(* lambda_handler, one statistic of one player: the regressor is asked     *)
HandlerMlPredict ==
    /\ pc = "start"
    /\ \E registry \in Registries, outcome \in { Raises } \cup { Returns(s) : s \in Scores } :
          /\ stat_field \in registry /\ stat_field # "pra"
          /\ models' = registry
          /\ ml_features' = FeatureVector
          /\ regressor' = outcome
          /\ ml_prediction' = ml_predict(registry, FeatureVector, stat_field, outcome)
    /\ result' = predict_player_stat(processed_stats, stat_field, line, ml_prediction')
    /\ caller' = "lambda_handler"
    /\ pc' = "done"
    /\ UNCHANGED << processed_stats, stat_field, line >>
    /\ UNCHANGED << verifyVars, statsVars, featureVars, matchVars, rawVars, minutesVars, pipelineVars, contextVars, registryVars >>

(* lambda_handler, one statistic of one player: no feature vector or no    *)
(* model for the statistic, ml_pred stays None                             *)
HandlerWeightedOnly ==
    /\ pc = "start"
    /\ \E registry \in Registries, features \in { None, FeatureVector } :
          /\ ~ (features # None /\ stat_field \in registry /\ stat_field # "pra")
          /\ models' = registry
          /\ ml_features' = features
    /\ ml_prediction' = None
    /\ result' = predict_player_stat(processed_stats, stat_field, line, None)
    /\ caller' = "lambda_handler"
    /\ pc' = "done"
    /\ UNCHANGED << processed_stats, stat_field, line, regressor >>
    /\ UNCHANGED << verifyVars, statsVars, featureVars, matchVars, rawVars, minutesVars, pipelineVars, contextVars, registryVars >>

(* a caller that passes the model score itself (ml_prediction parameter)   *)
DirectCall ==
    /\ pc = "start"
    /\ TotalWeight(processed_stats, stat_field, 3) # Zero
    /\ ml_prediction' = WaPrediction(processed_stats, stat_field)
    /\ result' = predict_player_stat(processed_stats, stat_field, line, ml_prediction')
    /\ caller' = "direct"
    /\ pc' = "done"
    /\ UNCHANGED << processed_stats, stat_field, line, models, ml_features, regressor >>
    /\ UNCHANGED << verifyVars, statsVars, featureVars, matchVars, rawVars, minutesVars, pipelineVars, contextVars, registryVars >>

Next == HandlerMlPredict \/ HandlerWeightedOnly \/ DirectCall

Spec == Init /\ [][Next]_vars

TypeOK ==
    /\ pc \in { "start", "done" }
    /\ caller \in { "none", "lambda_handler", "direct" }
    /\ models \subseteq STAT_TARGETS
    /\ result.returned \in { "None", "Prediction" }

(***************************************************************************)
(* Properties of predict_player_stat.                                      *)
(***************************************************************************)
(* a call has returned a Prediction (not None) *)
Predicted == pc = "done" /\ result.returned = "Prediction"

(* the unrounded final prediction and edge of the call in the state *)
FinalPrediction ==
    AdjustedPrediction(WaPrediction(processed_stats, stat_field), ml_prediction)

LineEdge == RMul(RDiv(RSub(FinalPrediction, line), line), FromInt(100))

(* C1: whenever a prediction is returned for a call without a market line *)
(* (line is None), the recommendation is HOLD and edge_pct is 0, whatever *)
(* the prediction value, trend, consistency or model score.               *)
C1_NoLineHold ==
    (Predicted /\ line = None) =>
        (result.recommendation = "HOLD" /\ result.edge_pct = Zero)

(* a call without a line that blended a positive model score *)
C1_Witness ==
    /\ Predicted /\ line = None
    /\ result.prediction_method = "ensemble"
    /\ result.recommendation = "HOLD"
    /\ RLt(FromInt(25), result.prediction)

(* C2: for every line > 0, with edge = (final - line)/line * 100, the     *)
(* recommendation is OVER exactly when edge > 8, UNDER exactly when       *)
(* edge < -8, and HOLD otherwise (including |edge| exactly 8).            *)
C2_RecommendationThresholds ==
    (Predicted /\ line # None /\ RLt(Zero, line)) =>
        /\ (result.recommendation = "OVER") <=> RLt(FromInt(8), LineEdge)
        /\ (result.recommendation = "UNDER") <=> RLt(LineEdge, FromInt(-8))
        /\ (result.recommendation = "HOLD") <=>
               (RLe(FromInt(-8), LineEdge) /\ RLe(LineEdge, FromInt(8)))

(* an edge of exactly 8 percent is HOLD *)
C2_Witness ==
    /\ Predicted /\ line # None /\ RLt(Zero, line)
    /\ LineEdge = FromInt(8)
    /\ result.recommendation = "HOLD"

(* C3: with a line > 0 the starting confidence c becomes min(95, c+15)    *)
(* when |edge| >= 15, otherwise min(90, c+5) when |edge| >= 8, otherwise  *)
(* max(20, c-10); exactly one branch applies for every edge value.        *)
C3_Recalibration ==
    (Predicted /\ line # None /\ RLt(Zero, line)) =>
        LET c == result.consistency
            high == RLe(FromInt(15), RAbs(LineEdge))
            medium == ~ high /\ RLe(FromInt(8), RAbs(LineEdge))
            low == ~ high /\ ~ medium
        IN  /\ high => result.confidence_score = RMin(FromInt(95), RAdd(c, FromInt(15)))
            /\ medium => result.confidence_score = RMin(FromInt(90), RAdd(c, FromInt(5)))
            /\ low => result.confidence_score = RMax(FromInt(20), RSub(c, FromInt(10)))
            /\ Cardinality({ b \in { <<1, high>>, <<2, medium>>, <<3, low>> } : b[2] }) = 1

(* an edge of exactly 15 percent on a starting confidence of 90 is capped at 95 *)
C3_Witness ==
    /\ Predicted /\ line # None /\ RLt(Zero, line)
    /\ LineEdge = FromInt(15)
    /\ result.consistency = FromInt(90)
    /\ result.confidence_score = FromInt(95)

(* C4: the confidence score starts at the stored consistency score of the *)
(* predicted statistic for every stored value in 0..100, a stored 0       *)
(* included, and at 50 only when no consistency entry is stored.          *)
C4_StartsAtStoredConsistency ==
    Predicted =>
        LET stored == processed_stats.consistency
            start == IF stat_field \in DOMAIN stored THEN stored[stat_field] ELSE FromInt(50)
        IN  /\ result.consistency = start
            /\ line = None => result.confidence_score = start

(* the weighted base of the spec: sum(mean * weight) / sum(weight) over    *)
(* the windows whose mean for the statistic is > 0, weights in hundredths *)
PositiveWindows ==
    { w \in DOMAIN processed_stats.rolling_averages :
        /\ stat_field \in DOMAIN processed_stats.rolling_averages[w]
        /\ processed_stats.rolling_averages[w][stat_field][1] > 0 }

WindowMean(w) == processed_stats.rolling_averages[w][stat_field]

Hundredths(w) == CASE w = "last_5" -> 45 [] w = "last_10" -> 30 [] w = "last_20" -> 25

Contribution(w) ==
    IF w \in PositiveWindows THEN RMul(WindowMean(w), FromInt(Hundredths(w))) ELSE Zero

WeightOf(w) == IF w \in PositiveWindows THEN Hundredths(w) ELSE 0

ExpectedBase ==
    RDiv(RAdd(RAdd(Contribution("last_5"), Contribution("last_10")), Contribution("last_20")),
         FromInt(WeightOf("last_5") + WeightOf("last_10") + WeightOf("last_20")))

(* C5: the weighted-average base is sum(window_mean * weight) /           *)
(* sum(weight) over the windows whose mean is > 0, with weights           *)
(* 0.45/0.30/0.25; with no such window the call returns None, not a       *)
(* Prediction with a HOLD recommendation.                                 *)
C5_WeightedBase ==
    pc = "done" =>
        /\ (PositiveWindows = {}) <=> (result = NoPrediction)
        /\ PositiveWindows # {} =>
              /\ result.returned = "Prediction"
              /\ BasePrediction(processed_stats, stat_field) = ExpectedBase
              /\ result.breakdown.base_prediction = Round(ExpectedBase, 10)
              /\ (result.trend = Zero /\ result.prediction_method = "weighted_avg")
                     => result.prediction = Round(ExpectedBase, 10)

(* only the 10- and 20-record windows contribute, the 5-record mean is 0 *)
C5_Witness ==
    /\ Predicted
    /\ PositiveWindows = { "last_10", "last_20" }
    /\ "last_5" \in DOMAIN processed_stats.rolling_averages
    /\ WindowMean("last_10") # WindowMean("last_20")
    /\ result.breakdown.base_prediction = Round(ExpectedBase, 10)

(* the call returned None because no window has a positive mean *)
C5_WitnessNone ==
    /\ pc = "done" /\ result = NoPrediction
    /\ DOMAIN processed_stats.rolling_averages # {}

(* C6: the result is 0.6 * model_score + 0.4 * weighted_avg_prediction    *)
(* with method "ensemble" exactly when a model score is supplied and > 0; *)
(* with no model for the statistic, no feature vector, a raising          *)
(* regressor or a score <= 0 the call still returns the weighted-average  *)
(* prediction with method "weighted_avg".                                 *)
C6_EnsembleOrFallback ==
    pc = "done" =>
        LET supplied == ml_prediction # None /\ ml_prediction[1] > 0
            wa == WaPrediction(processed_stats, stat_field)
            blend == RAdd(RMul(Rat(6, 10), ml_prediction), RMul(Rat(4, 10), wa))
            unavailable ==
                /\ caller = "lambda_handler"
                /\ \/ stat_field \notin models
                   \/ ml_features = None
                   \/ regressor.raised
                   \/ (regressor.called /\ ~ regressor.raised /\ RLe(regressor.score, Zero))
        IN  /\ (result.returned = "Prediction") <=> (PositiveWindows # {})
            /\ unavailable => ~ supplied
            /\ Predicted =>
                  /\ (result.prediction_method = "ensemble") <=> supplied
                  /\ (result.prediction_method = "weighted_avg") <=> ~ supplied
                  /\ supplied => result.prediction = Round(blend, 10)
                  /\ ~ supplied => /\ result.prediction = Round(wa, 10)
                                    /\ result.prediction = result.wa_prediction

(* the regressor raised and the weighted-average prediction was returned *)
C6_Witness ==
    /\ Predicted
    /\ regressor.raised
    /\ result.prediction_method = "weighted_avg"
    /\ result.prediction = result.wa_prediction

(* a positive score was blended *)
C6_WitnessEnsemble ==
    /\ Predicted
    /\ regressor.called /\ ~ regressor.raised
    /\ result.prediction_method = "ensemble"
    /\ result.prediction # result.wa_prediction

(* the worked example: rolling averages {28.0, 25.0, 24.0}, trend 5.0,    *)
(* consistency 72.0, no model score, line 25.5                            *)
ExampleCall ==
    /\ pc = "done"
    /\ processed_stats =
          ProcessedStats(stat_field, FromInt(28), FromInt(25), FromInt(24), FromInt(5), FromInt(72))
    /\ line = Rat(255, 10)
    /\ ml_prediction = None

Near(x, target, tolerance) == RLe(RAbs(RSub(x, target)), tolerance)

ExampleBase == BasePrediction(processed_stats, stat_field)

ExampleAdjustment == TrendAdjustment(ExampleBase, TrendOf(processed_stats, stat_field))

(* C7 as stated: base 25.35, trend adjustment about 0.0634, final about   *)
(* 25.41 (strictly between 24 and 30), edge about -0.35%, HOLD,           *)
(* confidence 62, label MEDIUM.                                           *)
C7_ExampleAsStated ==
    ExampleCall =>
        /\ result.returned = "Prediction"
        /\ ExampleBase = Rat(2535, 100)
        /\ Near(ExampleAdjustment, Rat(634, 10000), Rat(1, 10000))
        /\ Near(FinalPrediction, Rat(2541, 100), Rat(1, 100))
        /\ RLt(FromInt(24), result.prediction) /\ RLt(result.prediction, FromInt(30))
        /\ Near(LineEdge, Rat(-35, 100), Rat(5, 100))
        /\ result.recommendation = "HOLD"
        /\ result.confidence_score = FromInt(62)
        /\ result.confidence_label = "MEDIUM"

(* C7 amended: on the same input the weighted base is 26.1 (28*0.45 +     *)
(* 25*0.30 + 24*0.25), the trend adjustment 0.06525, the final prediction *)
(* 26.16525 (reported 26.2, strictly between 24 and 30), the edge about   *)
(* +2.61% (reported 2.6), the recommendation HOLD, the confidence 62 and  *)
(* the label MEDIUM.                                                      *)
C7_ExampleAmended ==
    ExampleCall =>
        /\ result.returned = "Prediction"
        /\ ExampleBase = Rat(261, 10)
        /\ ExampleAdjustment = Rat(6525, 100000)
        /\ FinalPrediction = Rat(2616525, 100000)
        /\ result.prediction = Rat(262, 10)
        /\ RLt(FromInt(24), result.prediction) /\ RLt(result.prediction, FromInt(30))
        /\ Near(LineEdge, Rat(261, 100), Rat(1, 100))
        /\ result.edge_pct = Rat(26, 10)
        /\ result.recommendation = "HOLD"
        /\ result.confidence_score = FromInt(62)
        /\ result.confidence_label = "MEDIUM"

(* the worked example has been computed *)
C7_Witness == ExampleCall /\ result.returned = "Prediction" /\ caller = "lambda_handler"

(* C8: the confidence label is HIGH exactly when the final confidence     *)
(* score is >= 75, MEDIUM exactly when it is >= 50 and < 75, LOW exactly  *)
(* when it is < 50, with or without a line.                               *)
C8_LabelThresholds ==
    Predicted =>
        LET score == result.confidence_score
        IN  /\ (result.confidence_label = "HIGH") <=> RLe(FromInt(75), score)
            /\ (result.confidence_label = "MEDIUM") <=>
                   (RLe(FromInt(50), score) /\ RLt(score, FromInt(75)))
            /\ (result.confidence_label = "LOW") <=> RLt(score, FromInt(50))

(* a score of exactly 75 reached by recalibration against a line is HIGH *)
C8_Witness ==
    /\ Predicted /\ line # None /\ RLt(Zero, line)
    /\ result.confidence_score = FromInt(75)
    /\ result.confidence_label = "HIGH"

(* a score of exactly 50 without a line is MEDIUM *)
C8_WitnessNoLine ==
    /\ Predicted /\ line = None
    /\ result.confidence_score = FromInt(50)
    /\ result.confidence_label = "MEDIUM"

(* every present window holds the same mean x > 0, the trend is 0 and no  *)
(* model score is supplied                                                *)
EqualWindows(x) ==
    /\ Predicted
    /\ DOMAIN processed_stats.rolling_averages # {}
    /\ \A w \in DOMAIN processed_stats.rolling_averages :
          processed_stats.rolling_averages[w] = (stat_field :> x)
    /\ RLt(Zero, x)
    /\ TrendOf(processed_stats, stat_field) = Zero
    /\ ml_prediction = None

EqualMeans == (Means5 \cap Means10 \cap Means20) \ { None }

(* C9 as stated: with all present window means equal to X > 0 and trend 0 *)
(* the returned prediction is X.                                          *)
C9_PredictionIsX ==
    \A x \in EqualMeans : EqualWindows(x) => result.prediction = x

(* C9 amended: with all present window means equal to X > 0 and trend 0   *)
(* the blended value is X whatever the weights, and the returned          *)
(* prediction is X rounded to one decimal: within 0.05 of X, and equal to *)
(* X whenever X has at most one decimal.                                  *)
C9_PredictionIsRoundedX ==
    \A x \in EqualMeans : EqualWindows(x) =>
        /\ FinalPrediction = x
        /\ Near(result.prediction, x, Rat(5, 100))
        /\ (10 * x[1]) % x[2] = 0 => result.prediction = x

(* two of the three windows present, both 2.53: the prediction is 2.5 *)
C9_Witness ==
    /\ EqualWindows(Rat(253, 100))
    /\ Cardinality(DOMAIN processed_stats.rolling_averages) = 2
    /\ result.prediction = Rat(25, 10)

(* C10: when the supplied model score equals the weighted-average         *)
(* prediction, the final prediction is the one returned without a model   *)
(* score.                                                                 *)
C10_BlendNeutral ==
    (Predicted /\ ml_prediction = WaPrediction(processed_stats, stat_field)) =>
        LET alone == predict_player_stat(processed_stats, stat_field, line, None)
        IN  /\ result.prediction = alone.prediction
            /\ result.prediction = result.wa_prediction
            /\ FinalPrediction = WaPrediction(processed_stats, stat_field)

(* a positive score equal to the weighted-average prediction was blended *)
C10_Witness ==
    /\ Predicted
    /\ ml_prediction = WaPrediction(processed_stats, stat_field)
    /\ result.prediction_method = "ensemble"
    /\ Cardinality(PositiveWindows) = 3
    /\ result.trend # Zero

(***************************************************************************)
(* verify_results.  A table row is a function from its attribute names;    *)
(* an attribute that is None in Python is absent.  The tri-state           *)
(* `correct` of a result is "True", "False" or "None".                     *)
(***************************************************************************)
CheckDate == "2025-01-15"

OtherDate == "2025-01-14"

PyBool(b) == IF b THEN "True" ELSE "False"

(* the rows of the date that are player props with a line attribute        *)
get_predictions_for_date(table) ==
    SelectSeq(table, LAMBDA i : i.type = "PLAYER_PROP" /\ "line" \in DOMAIN i)

(* the first game row of the player played on the date, or None            *)
get_actual_player_stats(table, player_id, date) ==
    LET rows == IF player_id \in DOMAIN table THEN table[player_id] ELSE << >>
        hits == SelectSeq(rows, LAMBDA g : g.date = date)
    IN  IF hits = << >> THEN None ELSE hits[1]

NoResult == [returned |-> "None"]

(* the realized value: pts + reb + ast for "pra", else the stat itself     *)
ActualValue_NoAssists(actual_stats, stat) ==
    IF stat = "pra"
    THEN RAdd(FromInt(Get(actual_stats, "pts", 0)), FromInt(Get(actual_stats, "reb", 0)))
    ELSE FromInt(Get(actual_stats, stat, 0))

ActualValue(actual_stats, stat) ==
    IF stat = "pra"
    THEN RAdd(RAdd(FromInt(Get(actual_stats, "pts", 0)),
                   FromInt(Get(actual_stats, "reb", 0))),
              FromInt(Get(actual_stats, "ast", 0)))
    ELSE FromInt(Get(actual_stats, stat, 0))

(* a push is reported as UNDER *)
ActualResult_NoPush(actual, ln) ==
    IF RLt(ln, actual) THEN "OVER" ELSE "UNDER"

ActualResult(actual, ln) ==
    IF RLt(ln, actual) THEN "OVER"
    ELSE IF RLt(actual, ln) THEN "UNDER"
    ELSE "PUSH"

(* `not line or not recommendation or recommendation == "HOLD"` *)
NotVerifiable_HoldIncluded(prediction) ==
    \/ Get(prediction, "line", None) \in { None, Zero }
    \/ "recommendation" \notin DOMAIN prediction
    \/ prediction.recommendation = ""

NotVerifiable(prediction) ==
    \/ Get(prediction, "line", None) \in { None, Zero }
    \/ "recommendation" \notin DOMAIN prediction
    \/ prediction.recommendation \in { "", "HOLD" }

verify_prediction(prediction, actual_stats) ==
    IF actual_stats = None \/ NotVerifiable(prediction)
    THEN NoResult
    ELSE LET actual == ActualValue(actual_stats, prediction.stat)
             actual_result == ActualResult(actual, prediction.line)
         IN  [ returned |-> "Result",
               correct |-> IF actual_result = "PUSH" THEN "None"
                           ELSE PyBool(prediction.recommendation = actual_result),
               actual_value |-> actual,
               actual_result |-> actual_result,
               line |-> prediction.line,
               predicted_value |-> Get(prediction, "prediction", None),
               recommendation |-> prediction.recommendation,
               difference |-> Round(RSub(actual, prediction.line), 10) ]

ZeroCounters == [total |-> 0, correct |-> 0, incorrect |-> 0, pushes |-> 0, no_data |-> 0]

ResultKey(pred) == << pred.player_id, pred.stat >>

ResultItem(pred, res) ==
    [ date |-> CheckDate,
      player_id |-> pred.player_id,
      player_name |-> Get(pred, "player_name", ""),
      stat |-> pred.stat,
      line |-> res.line,
      predicted_value |-> res.predicted_value,
      actual_value |-> res.actual_value,
      recommendation |-> res.recommendation,
      actual_result |-> res.actual_result,
      correct |-> res.correct,
      difference |-> res.difference ]

(* a missed pick is not counted *)
CountVerified_CorrectOnly(c, res) ==
    IF res.correct = "True"
    THEN [c EXCEPT !.total = @ + 1, !.correct = @ + 1]
    ELSE [c EXCEPT !.total = @ + 1]

CountVerified(c, res) ==
    IF res.correct = "True"
    THEN [c EXCEPT !.total = @ + 1, !.correct = @ + 1]
    ELSE [c EXCEPT !.total = @ + 1, !.incorrect = @ + 1]

AccuracyPct(c) ==
    IF c.total > 0 THEN Round(Rat(c.correct * 100, c.total), 10) ELSE Zero

(***************************************************************************)
(* Tables read by one run for CheckDate.  Prop rows are what the predict   *)
(* Lambda stores (no line or line 0 go with HOLD), one row lacks its       *)
(* recommendation; a TEAM_TOTAL row shares the partition.                  *)
(***************************************************************************)
MaxPredictions == 2

VerifyPlayers == { 1, 2 }

PropKeys == { << 1, "pts" >>, << 1, "pra" >>, << 2, "pts" >> }

PropLine == FromInt(11)

LineAndRecommendation ==
    { << None, "HOLD" >>, << Zero, "HOLD" >>, << PropLine, "HOLD" >>,
      << PropLine, "OVER" >>, << PropLine, "UNDER" >>, << PropLine, "" >> }

PropItem(key, ln, rec) ==
    [ type |-> "PLAYER_PROP", player_id |-> key[1], player_name |-> "P",
      stat |-> key[2], prediction |-> Rat(115, 10) ]
    @@ (IF ln = None THEN << >> ELSE [line |-> ln])
    @@ (IF rec = "" THEN << >> ELSE [recommendation |-> rec])

TeamTotalItem == [type |-> "TEAM_TOTAL", team_id |-> 1, prediction |-> FromInt(110)]

PropItems == { PropItem(k, lr[1], lr[2]) : k \in PropKeys, lr \in LineAndRecommendation }

ItemKey(i) == IF i.type = "PLAYER_PROP" THEN << i.player_id, i.stat >> ELSE << 0, "team" >>

PredictionTables ==
    { t \in UNION { [1..n -> PropItems \cup { TeamTotalItem }] : n \in 0..MaxPredictions } :
        \A a, b \in DOMAIN t : a # b => ItemKey(t[a]) # ItemKey(t[b]) }

GameRow(date, pts) == [date |-> date, pts |-> pts, reb |-> 1, ast |-> 0]

GameRows == { << >>, << GameRow(OtherDate, 12) >> }
              \cup { << GameRow(CheckDate, p) >> : p \in { 10, 11, 12 } }

StatsTables == [VerifyPlayers -> GameRows]

InitVerify ==
    /\ PredictIdle /\ StatsIdle /\ FeaturesIdle /\ MatchIdle /\ RawIdle /\ MinutesIdle /\ PipelineIdle /\ ContextIdle /\ RegistryIdle
    /\ predictions_table \in PredictionTables
    /\ stats_table \in StatsTables
    /\ verify_pc = "start"
    /\ verify_i = 0
    /\ verification = NoResult
    /\ counters = ZeroCounters
    /\ results_table = << >>
    /\ summary = << >>

Predictions == get_predictions_for_date(predictions_table)

(* lambda_handler up to the loop: nothing to verify ends the run *)
VerifyStart ==
    /\ verify_pc = "start"
    /\ IF Predictions = << >>
       THEN /\ summary' = [message |-> "No predictions with lines found", date |-> CheckDate]
            /\ verify_pc' = "done"
            /\ verify_i' = 0
       ELSE /\ summary' = summary
            /\ verify_pc' = "loop"
            /\ verify_i' = 1
    /\ counters' = ZeroCounters
    /\ UNCHANGED << predictions_table, stats_table, verification, results_table >>
    /\ UNCHANGED << predictVars, statsVars, featureVars, matchVars, rawVars, minutesVars, pipelineVars, contextVars, registryVars >>

(* one iteration of `for pred in predictions` *)
VerifyOne ==
    /\ verify_pc = "loop"
    /\ verify_i <= Len(Predictions)
    /\ LET pred == Predictions[verify_i]
           actual == get_actual_player_stats(stats_table, Get(pred, "player_id", 0), CheckDate)
           res == verify_prediction(pred, actual)
       IN  IF "player_id" \notin DOMAIN pred \/ pred.player_id = 0
           THEN /\ verification' = NoResult
                /\ UNCHANGED << counters, results_table >>
           ELSE IF actual = None
           THEN /\ verification' = NoResult
                /\ counters' = [counters EXCEPT !.no_data = @ + 1]
                /\ UNCHANGED results_table
           ELSE IF res.returned = "None"
           THEN /\ verification' = res
                /\ UNCHANGED << counters, results_table >>
           ELSE IF res.correct = "None"
           THEN /\ verification' = res
                /\ counters' = [counters EXCEPT !.pushes = @ + 1]
                /\ UNCHANGED results_table
           ELSE /\ verification' = res
                /\ counters' = CountVerified(counters, res)
                /\ results_table' = (ResultKey(pred) :> ResultItem(pred, res)) @@ results_table
    /\ verify_i' = verify_i + 1
    /\ UNCHANGED << predictions_table, stats_table, verify_pc, summary >>
    /\ UNCHANGED << predictVars, statsVars, featureVars, matchVars, rawVars, minutesVars, pipelineVars, contextVars, registryVars >>

(* after the loop: the summary *)
VerifyFinish ==
    /\ verify_pc = "loop"
    /\ verify_i > Len(Predictions)
    /\ summary' = [ date |-> CheckDate,
                    total_verified |-> counters.total,
                    correct |-> counters.correct,
                    incorrect |-> counters.incorrect,
                    pushes |-> counters.pushes,
                    no_data |-> counters.no_data,
                    accuracy_pct |-> AccuracyPct(counters) ]
    /\ verify_pc' = "done"
    /\ UNCHANGED << predictions_table, stats_table, verify_i, verification, counters,
                    results_table >>
    /\ UNCHANGED << predictVars, statsVars, featureVars, matchVars, rawVars, minutesVars, pipelineVars, contextVars, registryVars >>

NextVerify == VerifyStart \/ VerifyOne \/ VerifyFinish

SpecVerify == InitVerify /\ [][NextVerify]_vars

(***************************************************************************)
(* The prediction handled by the last loop iteration and the game row      *)
(* found for it.                                                           *)
(***************************************************************************)
Iterated == verify_pc \in { "loop", "done" } /\ verify_i >= 2

LastPred == Predictions[verify_i - 1]

LastActual == get_actual_player_stats(stats_table, LastPred.player_id, CheckDate)

HasLineAndPick(pred) ==
    /\ "line" \in DOMAIN pred /\ pred.line # Zero
    /\ "recommendation" \in DOMAIN pred /\ pred.recommendation \in { "OVER", "UNDER" }

(* realized value as an integer, from the game row *)
Realized(row, stat) ==
    IF stat = "pra" THEN row.pts + row.reb + row.ast ELSE row[stat]

(* C11: a prediction with a line and an OVER/UNDER pick, verified against  *)
(* a game row, gets actual_result OVER when the realized value (pts + reb  *)
(* + ast for "pra") is above the line, UNDER when below, PUSH when equal;  *)
(* correct is None exactly on PUSH and otherwise says whether the pick     *)
(* equals actual_result.                                                   *)
C11_OutcomeOfVerification ==
    (Iterated /\ HasLineAndPick(LastPred) /\ LastActual # None) =>
        LET realized == Realized(LastActual, LastPred.stat)
            num == LastPred.line[1]
            den == LastPred.line[2]
        IN  /\ verification.returned = "Result"
            /\ verification.actual_value = FromInt(realized)
            /\ (realized * den > num) => verification.actual_result = "OVER"
            /\ (realized * den < num) => verification.actual_result = "UNDER"
            /\ (realized * den = num) => verification.actual_result = "PUSH"
            /\ (verification.correct = "None") <=> (verification.actual_result = "PUSH")
            /\ (verification.actual_result # "PUSH") =>
                   verification.correct =
                       PyBool(LastPred.recommendation = verification.actual_result)

C11_Witness ==
    /\ Iterated /\ HasLineAndPick(LastPred) /\ LastActual # None
    /\ LastPred.stat = "pra"
    /\ LastActual.pts = 10
    /\ verification.actual_result = "PUSH"
    /\ verification.correct = "None"

Verifiable(pred) == HasLineAndPick(pred)

(* C12: a prediction without a line, or with a HOLD or missing pick, gets  *)
(* no result from verify_prediction; every stored result belongs to a      *)
(* prediction with a line and an OVER/UNDER pick, and only stored results  *)
(* are counted correct or incorrect.                                       *)
C12_HoldAndNoLineSkipped ==
    /\ (Iterated /\ ~ Verifiable(LastPred)) => verification = NoResult
    /\ \A k \in DOMAIN results_table :
           \E i \in 1..Len(predictions_table) :
               /\ predictions_table[i].type = "PLAYER_PROP"
               /\ ItemKey(predictions_table[i]) = k
               /\ Verifiable(predictions_table[i])
               /\ results_table[k].recommendation = predictions_table[i].recommendation
    /\ counters.correct + counters.incorrect = Cardinality(DOMAIN results_table)

C12_Witness ==
    /\ verify_pc = "done"
    /\ DOMAIN results_table # {}
    /\ \E i \in 1..Len(Predictions) :
           /\ Predictions[i].line = PropLine
           /\ Get(Predictions[i], "recommendation", "") = "HOLD"
           /\ get_actual_player_stats(stats_table, Predictions[i].player_id, CheckDate) # None
           /\ ItemKey(Predictions[i]) \notin DOMAIN results_table

CounterNames == { "correct", "incorrect", "pushes", "no_data" }

Incremented == { n \in CounterNames : counters'[n] # counters[n] }

(* C13: one loop iteration increments at most one of correct, incorrect,   *)
(* pushes, no_data, and by one; without a game row of the date it is       *)
(* no_data, on a PUSH it is pushes; the summary has total_verified =       *)
(* correct + incorrect.                                                    *)
C13_CountersPartition ==
    [][ /\ (verify_pc = "loop" /\ verify_i' = verify_i + 1) =>
              LET pred == Predictions[verify_i]
                  actual == get_actual_player_stats(stats_table, pred.player_id, CheckDate)
              IN  /\ Cardinality(Incremented) <= 1
                  /\ \A n \in Incremented : counters'[n] = counters[n] + 1
                  /\ actual = None => Incremented = { "no_data" }
                  /\ (actual # None /\ verification'.returned = "Result"
                        /\ verification'.actual_result = "PUSH") =>
                         Incremented = { "pushes" }
        /\ (verify_pc' = "done" /\ "total_verified" \in DOMAIN summary') =>
              /\ summary'.total_verified = summary'.correct + summary'.incorrect
              /\ summary'.total_verified = counters'.total
      ]_vars

C13_Witness ==
    /\ verify_pc = "done"
    /\ "total_verified" \in DOMAIN summary
    /\ summary.total_verified = 1
    /\ summary.incorrect = 1
    /\ summary.no_data = 1

(***************************************************************************)
(* process_stats.  A Python string that the code takes apart is a          *)
(* sequence of one-character strings.                                      *)
(***************************************************************************)
Digits == { "0", "1", "2", "3", "4", "5", "6", "7", "8", "9" }

DigitValue(c) ==
    CASE c = "0" -> 0 [] c = "1" -> 1 [] c = "2" -> 2 [] c = "3" -> 3 [] c = "4" -> 4
      [] c = "5" -> 5 [] c = "6" -> 6 [] c = "7" -> 7 [] c = "8" -> 8 [] c = "9" -> 9

Contains(s, c) == \E i \in DOMAIN s : s[i] = c

(* str.split(sep) with a one-character separator *)
RECURSIVE SplitOn(_, _)
SplitOn(s, sep) ==
    IF ~ Contains(s, sep) THEN << s >>
    ELSE LET i == CHOOSE k \in DOMAIN s : s[k] = sep /\ \A j \in 1..(k - 1) : s[j] # sep
         IN  << SubSeq(s, 1, i - 1) >> \o SplitOn(SubSeq(s, i + 1, Len(s)), sep)

RECURSIVE Pow10(_)
Pow10(n) == IF n = 0 THEN 1 ELSE 10 * Pow10(n - 1)

RECURSIVE DigitsValue(_)
DigitsValue(s) ==
    IF s = << >> THEN 0 ELSE 10 * DigitsValue(SubSeq(s, 1, Len(s) - 1)) + DigitValue(s[Len(s)])

(* float(s) succeeds: here, an unsigned decimal literal *)
IsFloatLiteral(s) ==
    /\ \A i \in DOMAIN s : s[i] \in Digits \cup { "." }
    /\ \E i \in DOMAIN s : s[i] \in Digits
    /\ Cardinality({ i \in DOMAIN s : s[i] = "." }) <= 1

ParseFloat(s) ==
    LET parts == SplitOn(s, ".")
        frac == IF Len(parts) > 1 THEN parts[2] ELSE << >>
    IN  Rat(DigitsValue(parts[1] \o frac), Pow10(Len(frac)))

parse_minutes(min_str) ==
    IF min_str = << >> \/ min_str = << "0" >> THEN Zero
    ELSE IF Contains(min_str, ":")
    THEN LET parts == SplitOn(min_str, ":")
         IN  IF IsFloatLiteral(parts[1]) /\ IsFloatLiteral(parts[2])
             THEN RAdd(ParseFloat(parts[1]), RDiv(ParseFloat(parts[2]), FromInt(60)))
             ELSE Zero
    ELSE IF IsFloatLiteral(min_str) THEN ParseFloat(min_str)
    ELSE Zero

STAT_FIELDS ==
    << "pts", "reb", "ast", "stl", "blk", "turnover", "fgm", "fga", "fg3m", "fg3a",
       "ftm", "fta" >>

DefaultWindows == << 5, 10, 20 >>

TrendWindow == 5

ConsistencyWindow == 10

(* game_logs[:n] *)
Take(logs, n) == SubSeq(logs, 1, IF n < Len(logs) THEN n ELSE Len(logs))

(* float(g.get(field, 0) or 0) *)
FieldOf(g, field) == IF field \in DOMAIN g THEN g[field] ELSE 0

RECURSIVE SumField(_, _)
SumField(logs, field) ==
    IF logs = << >> THEN 0 ELSE FieldOf(logs[1], field) + SumField(Tail(logs), field)

RECURSIVE SumMinutes(_)
SumMinutes(logs) ==
    IF logs = << >> THEN Zero
    ELSE RAdd(parse_minutes(Get(logs[1], "min", << "0" >>)), SumMinutes(Tail(logs)))

(* the total is divided by the window size, not by the records available   *)
FieldAverage_ZeroPadded(logs, window, field) ==
    Round(Rat(SumField(Take(logs, window), field), window), 100)

FieldAverage(logs, window, field) ==
    LET subset == Take(logs, window)
    IN  Round(Rat(SumField(subset, field), Len(subset)), 100)

Percentage(subset, made, attempted) ==
    IF SumField(subset, attempted) > 0
    THEN Round(Rat(SumField(subset, made), SumField(subset, attempted)), 1000)
    ELSE Zero

WindowAverages(logs, window) ==
    LET subset == Take(logs, window)
        raw == [f \in { STAT_FIELDS[i] : i \in DOMAIN STAT_FIELDS } |->
                    FieldAverage(logs, window, f)]
    IN  raw @@
        [ fg_pct |-> Percentage(subset, "fgm", "fga"),
          fg3_pct |-> Percentage(subset, "fg3m", "fg3a"),
          ft_pct |-> Percentage(subset, "ftm", "fta"),
          min |-> Round(RDiv(SumMinutes(subset), FromInt(Len(subset))), 10),
          pra |-> Round(RAdd(RAdd(raw["pts"], raw["reb"]), raw["ast"]), 100) ]

WindowKey(window) == "last_" \o ToString(window)

calculate_rolling_averages(logs, windows) ==
    LET used == { windows[i] : i \in { j \in DOMAIN windows : Take(logs, windows[j]) # << >> } }
    IN  [k \in { WindowKey(w) : w \in used } |->
            WindowAverages(logs, CHOOSE w \in used : WindowKey(w) = k)]

(* the change is measured from the recent mean to the older one *)
calculate_trend_Backwards(logs, field, window) ==
    IF Len(logs) < window * 2 THEN Zero
    ELSE LET recent == SumField(SubSeq(logs, 1, window), field)
             older == SumField(SubSeq(logs, window + 1, window * 2), field)
         IN  IF older = 0 THEN Zero
             ELSE Round(Rat((older - recent) * 100, older), 100)

(* both halves hold `window` records, so the means compare as the sums *)
calculate_trend(logs, field, window) ==
    IF Len(logs) < window * 2 THEN Zero
    ELSE LET recent == SumField(SubSeq(logs, 1, window), field)
             older == SumField(SubSeq(logs, window + 1, window * 2), field)
         IN  IF older = 0 THEN Zero
             ELSE Round(Rat((recent - older) * 100, older), 100)

RECURSIVE SumSquares(_, _)
SumSquares(logs, field) ==
    IF logs = << >> THEN 0
    ELSE FieldOf(logs[1], field) * FieldOf(logs[1], field) + SumSquares(Tail(logs), field)

(* floor of the square root, by bisection on lo..hi *)
RECURSIVE Bisect(_, _, _)
Bisect(n, lo, hi) ==
    IF lo >= hi THEN lo
    ELSE LET mid == (lo + hi + 1) \div 2
         IN  IF mid * mid <= n THEN Bisect(n, mid, hi) ELSE Bisect(n, lo, mid - 1)

ISqrt(n) == Bisect(n, 0, 46340)

(***************************************************************************)
(* With n values of sum S and square sum Q: mean = S/n, variance =         *)
(* (n*Q - S*S)/n^2, cv^2 = (n*Q - S*S)/S^2.  CvThousandths is 1000 * cv    *)
(* to the nearest integer, for 0 < cv < 1.                                 *)
(***************************************************************************)
CvThousandths(d, ss) ==
    LET g == GCD(d, ss)
    IN  (ISqrt((4000000 * (d \div g)) \div (ss \div g)) + 1) \div 2

(* the default is returned below 2 records instead of 3 *)
calculate_consistency_TwoRecords(logs, field, window) ==
    LET subset == Take(logs, window)
        n == Len(subset)
        S == SumField(subset, field)
        d == n * SumSquares(subset, field) - S * S
    IN  IF n < 2 THEN FromInt(50)
        ELSE IF S = 0 THEN Zero
        ELSE IF S < 0 THEN FromInt(100)
        ELSE IF d >= S * S THEN Zero
        ELSE Rat(1000 - CvThousandths(d, S * S), 10)

(* the score rises with the spread *)
calculate_consistency_Inverted(logs, field, window) ==
    LET subset == Take(logs, window)
        n == Len(subset)
        S == SumField(subset, field)
        d == n * SumSquares(subset, field) - S * S
    IN  IF n < 3 THEN FromInt(50)
        ELSE IF S = 0 THEN Zero
        ELSE IF S < 0 THEN Zero
        ELSE IF d >= S * S THEN FromInt(100)
        ELSE Rat(CvThousandths(d, S * S), 10)

calculate_consistency(logs, field, window) ==
    LET subset == Take(logs, window)
        n == Len(subset)
        S == SumField(subset, field)
        d == n * SumSquares(subset, field) - S * S
    IN  IF n < 3 THEN FromInt(50)
        ELSE IF S = 0 THEN Zero
        ELSE IF S < 0 THEN FromInt(100)
        ELSE IF d >= S * S THEN Zero
        ELSE Rat(1000 - CvThousandths(d, S * S), 10)

(***************************************************************************)
(* Game logs, most recent first: up to 2 * TrendWindow rows with 0, 1 or   *)
(* 2 points (a row with points carries its minutes), and, when the log has *)
(* at most MaxPairLen rows, a second log of the same length and the same   *)
(* total.                                                                  *)
(***************************************************************************)
StatValues == { 0, 1, 2 }

MaxPairLen == 4

MinutesPlayed(v) ==
    IF v = 1 THEN << "2", "4", ":", "3", "0" >> ELSE << "3", "1" >>

GameLog(v) == IF v = 0 THEN [pts |-> 0] ELSE [pts |-> v, min |-> MinutesPlayed(v)]

LogsOfLength(n) == { [i \in 1..n |-> GameLog(vs[i])] : vs \in [1..n -> StatValues] }

InitStats ==
    /\ PredictIdle /\ VerifyIdle /\ FeaturesIdle /\ MatchIdle /\ RawIdle /\ MinutesIdle /\ PipelineIdle /\ ContextIdle /\ RegistryIdle
    /\ \E n \in 0..(2 * TrendWindow) :
          /\ game_logs \in LogsOfLength(n)
          /\ IF n <= MaxPairLen
             THEN other_logs \in { o \in LogsOfLength(n) :
                                       SumField(o, "pts") = SumField(game_logs, "pts") }
             ELSE other_logs = game_logs
    /\ stats_out = << >>
    /\ stats_pc = "start"

(* the three calculations on the log, as lambda_handler calls them *)
CalculateStats ==
    /\ stats_pc = "start"
    /\ stats_out' =
           [ rolling_averages |-> calculate_rolling_averages(game_logs, DefaultWindows),
             trend |-> calculate_trend(game_logs, "pts", TrendWindow),
             consistency |-> calculate_consistency(game_logs, "pts", ConsistencyWindow),
             other_consistency |->
                 calculate_consistency(other_logs, "pts", ConsistencyWindow) ]
    /\ stats_pc' = "done"
    /\ UNCHANGED << game_logs, other_logs >>
    /\ UNCHANGED << predictVars, verifyVars, featureVars, matchVars, rawVars, minutesVars, pipelineVars, contextVars, registryVars >>

NextStats == CalculateStats

SpecStats == InitStats /\ [][NextStats]_vars

(***************************************************************************)
(* The records a window of size w draws from the log, and their values.    *)
(***************************************************************************)
StatsDone == stats_pc = "done"

Available(w) == IF w < Len(game_logs) THEN w ELSE Len(game_logs)

ValueAt(logs, k, f) == IF f \in DOMAIN logs[k] THEN logs[k][f] ELSE 0

RECURSIVE SumTo(_, _, _)
SumTo(logs, k, f) == IF k = 0 THEN 0 ELSE ValueAt(logs, k, f) + SumTo(logs, k - 1, f)

TrackedFields == { STAT_FIELDS[i] : i \in DOMAIN STAT_FIELDS }

WindowSizes == { DefaultWindows[i] : i \in DOMAIN DefaultWindows }

WithinWindowRange(w, f, avg) ==
    /\ \E k \in 1..Available(w) : RLe(FromInt(ValueAt(game_logs, k, f)), avg)
    /\ \E k \in 1..Available(w) : RLe(avg, FromInt(ValueAt(game_logs, k, f)))

(* C14 as stated: with N >= 1 records every window w reports, for each     *)
(* tracked statistic, the arithmetic mean of the first min(w, N) records,  *)
(* which lies between the smallest and the largest of them; with no        *)
(* record no window has an entry.                                          *)
C14_ExactMean ==
    StatsDone =>
        /\ Len(game_logs) = 0 => DOMAIN stats_out.rolling_averages = {}
        /\ Len(game_logs) >= 1 =>
             \A w \in WindowSizes, f \in TrackedFields :
                 /\ WindowKey(w) \in DOMAIN stats_out.rolling_averages
                 /\ stats_out.rolling_averages[WindowKey(w)][f] =
                        Rat(SumTo(game_logs, Available(w), f), Available(w))
                 /\ WithinWindowRange(w, f, stats_out.rolling_averages[WindowKey(w)][f])

(* C14, amended: the reported value is that mean rounded to two decimals;  *)
(* for integer statistics it still lies between the smallest and the       *)
(* largest value of the window.                                            *)
C14_RoundedMean ==
    StatsDone =>
        /\ Len(game_logs) = 0 => DOMAIN stats_out.rolling_averages = {}
        /\ Len(game_logs) >= 1 =>
             \A w \in WindowSizes, f \in TrackedFields :
                 /\ WindowKey(w) \in DOMAIN stats_out.rolling_averages
                 /\ LET mean == Rat(SumTo(game_logs, Available(w), f), Available(w))
                        avg == stats_out.rolling_averages[WindowKey(w)][f]
                    IN  /\ RLe(RAbs(RSub(avg, mean)), Rat(5, 1000))
                        /\ avg[2] \in { 1, 2, 4, 5, 10, 20, 25, 50, 100 }
                        /\ WithinWindowRange(w, f, avg)

C14_Witness ==
    /\ StatsDone
    /\ Len(game_logs) = 3
    /\ SumTo(game_logs, 3, "pts") = 1
    /\ stats_out.rolling_averages["last_5"]["pts"] = Rat(33, 100)
    /\ stats_out.rolling_averages["last_20"]["pts"] = Rat(33, 100)

StrictlyHigherRecent(logs) ==
    /\ Len(logs) = 2 * TrendWindow
    /\ \A i \in 1..TrendWindow, j \in (TrendWindow + 1)..(2 * TrendWindow) :
           ValueAt(logs, i, "pts") > ValueAt(logs, j, "pts")

Reversed(logs) == [i \in 1..Len(logs) |-> logs[Len(logs) + 1 - i]]

OlderAllZero(logs) ==
    \A j \in (TrendWindow + 1)..(2 * TrendWindow) : ValueAt(logs, j, "pts") = 0

(* C15 as stated: on every 10-record log whose 5 most recent values are    *)
(* each strictly higher than each of the 5 older ones the trend (window 5) *)
(* is > 0, and on the reversed log it is < 0.                              *)
C15_TrendSign ==
    (StatsDone /\ StrictlyHigherRecent(game_logs)) =>
        /\ RLt(Zero, stats_out.trend)
        /\ RLt(calculate_trend(Reversed(game_logs), "pts", TrendWindow), Zero)

(* C15, amended: the trend of such a log is > 0 unless the 5 older values  *)
(* are all zero, in which case it is 0; on the reversed log it is < 0.     *)
C15_TrendSignNonzeroOlder ==
    (StatsDone /\ StrictlyHigherRecent(game_logs)) =>
        /\ ~ OlderAllZero(game_logs) => RLt(Zero, stats_out.trend)
        /\ OlderAllZero(game_logs) => stats_out.trend = Zero
        /\ RLt(calculate_trend(Reversed(game_logs), "pts", TrendWindow), Zero)

C15_Witness ==
    /\ StatsDone
    /\ StrictlyHigherRecent(game_logs)
    /\ ~ OlderAllZero(game_logs)
    /\ \E j \in (TrendWindow + 1)..(2 * TrendWindow) : ValueAt(game_logs, j, "pts") = 0
    /\ RLt(FromInt(100), stats_out.trend)

(* n^2 times the variance of the first n values *)
Spread(logs) ==
    LET n == Len(logs)
        RECURSIVE sq(_)
        sq(k) == IF k = 0 THEN 0
                 ELSE ValueAt(logs, k, "pts") * ValueAt(logs, k, "pts") + sq(k - 1)
    IN  n * sq(n) - SumTo(logs, n, "pts") * SumTo(logs, n, "pts")

LowerVarianceSameMean ==
    /\ Len(other_logs) = Len(game_logs)
    /\ Len(game_logs) >= 3
    /\ SumTo(other_logs, Len(other_logs), "pts") = SumTo(game_logs, Len(game_logs), "pts")
    /\ Spread(other_logs) < Spread(game_logs)

STAT_ORDER == << "pts", "reb", "ast", "fg3m" >>

FEATURE_NAMES ==
    << "pts_avg3", "pts_avg5", "pts_avg10", "pts_trend",
       "reb_avg3", "reb_avg5", "reb_avg10", "reb_trend",
       "ast_avg3", "ast_avg5", "ast_avg10", "ast_trend",
       "fg3m_avg3", "fg3m_avg5", "fg3m_avg10", "fg3m_trend",
       "minutes_avg", "usage_pct_avg", "true_shooting_avg", "games_available",
       "is_home", "rest_days", "opp_def_rating", "opp_pace", "opp_pts_allowed_avg",
       "team_injuries_count" >>

RECURSIVE SumRatField(_, _)
SumRatField(logs, field) ==
    IF logs = << >> THEN Zero
    ELSE RAdd(Get(logs[1], field, Zero), SumRatField(Tail(logs), field))

(* sum(values[:n]) / min(n, len(values)) if values else 0 *)
MeanOfFirst(logs, n, stat) ==
    IF logs = << >> THEN Zero
    ELSE Rat(SumField(Take(logs, n), stat), Len(Take(logs, n)))

(* recent 3 against the next 3, when there are 6 values and older > 0 *)
InlineTrend(logs, stat) ==
    IF Len(logs) >= 6
    THEN LET recent == SumField(SubSeq(logs, 1, 3), stat)
             older == SumField(SubSeq(logs, 4, 6), stat)
         IN  IF older > 0 THEN Rat((recent - older) * 100, older) ELSE Zero
    ELSE Zero

OppStats(team_def_stats, opponent_id) == Get(team_def_stats, ToString(opponent_id), << >>)

(* predict: the four slots of one statistic *)
MlStatFeatures(prior_games, stat) ==
    << MeanOfFirst(prior_games, 3, stat), MeanOfFirst(prior_games, 5, stat),
       MeanOfFirst(prior_games, 10, stat), InlineTrend(prior_games, stat) >>

(* predict: days from the latest prior game to now, capped at 7 *)
MlRestDays(prior_games, today) ==
    IF Len(prior_games) >= 1
    THEN LET d2 == Get(prior_games[1], "date", << >>)
         IN  IF d2 = << >> THEN 1
             ELSE IF today - d2[1] < 7 THEN today - d2[1] ELSE 7
    ELSE 2

(* predict: the body of the try block *)
MlFeatureVector(prior_games, is_home, opponent_id, team_def_stats, today) ==
    LET first10 == Take(prior_games, 10)
        opp == OppStats(team_def_stats, opponent_id)
    IN  MlStatFeatures(prior_games, STAT_ORDER[1]) \o MlStatFeatures(prior_games, STAT_ORDER[2])
        \o MlStatFeatures(prior_games, STAT_ORDER[3]) \o MlStatFeatures(prior_games, STAT_ORDER[4])
        \o << IF first10 = << >> THEN Zero
              ELSE RDiv(SumMinutes(first10), FromInt(Len(first10))),
              IF first10 = << >> THEN Zero
              ELSE RDiv(SumRatField(first10, "usage_pct"), FromInt(Len(first10))),
              IF first10 = << >> THEN Zero
              ELSE RDiv(SumRatField(first10, "true_shooting_pct"), FromInt(Len(first10))),
              FromInt(IF Len(prior_games) < 50 THEN Len(prior_games) ELSE 50),
              IF is_home THEN FromInt(1) ELSE Zero,
              FromInt(MlRestDays(prior_games, today)),
              Get(opp, "def_rating", FromInt(110)),
              Get(opp, "pace", FromInt(100)),
              Get(opp, "pts_allowed_avg", FromInt(110)),
              Zero >>

(* a vector is built from however many games there are *)
build_ml_features_NoFloor(prior_games, is_home, opponent_id, team_def_stats, today) ==
    MlFeatureVector(prior_games, is_home, opponent_id, team_def_stats, today)

build_ml_features(prior_games, is_home, opponent_id, team_def_stats, today) ==
    IF Len(prior_games) < 5 THEN None
    ELSE MlFeatureVector(prior_games, is_home, opponent_id, team_def_stats, today)

(* train: the trend comes first *)
TrainStatFeatures_TrendFirst(prior_games, stat) ==
    << InlineTrend(prior_games, stat), MeanOfFirst(prior_games, 3, stat),
       MeanOfFirst(prior_games, 5, stat), MeanOfFirst(prior_games, 10, stat) >>

(* train: the four slots of one statistic *)
TrainStatFeatures(prior_games, stat) ==
    << MeanOfFirst(prior_games, 3, stat), MeanOfFirst(prior_games, 5, stat),
       MeanOfFirst(prior_games, 10, stat), InlineTrend(prior_games, stat) >>

(* train: days from the latest prior game to the target game, capped at 7 *)
TrainRestDays(prior_games, current_game) ==
    IF Len(prior_games) >= 1
    THEN LET d1 == Get(current_game, "date", << >>)
             d2 == Get(prior_games[1], "date", << >>)
         IN  IF d1 = << >> \/ d2 = << >> THEN 1
             ELSE IF d1[1] - d2[1] < 7 THEN d1[1] - d2[1] ELSE 7
    ELSE 2

build_features(prior_games, current_game, team_def_stats, injury_counts) ==
    LET first10 == Take(prior_games, 10)
        opp == OppStats(team_def_stats, Get(current_game, "opponent_id", 0))
    IN  TrainStatFeatures(prior_games, STAT_ORDER[1]) \o TrainStatFeatures(prior_games, STAT_ORDER[2])
        \o TrainStatFeatures(prior_games, STAT_ORDER[3]) \o TrainStatFeatures(prior_games, STAT_ORDER[4])
        \o << IF first10 = << >> THEN Zero
              ELSE RDiv(SumMinutes(first10), FromInt(Len(first10))),
              IF first10 = << >> THEN Zero
              ELSE RDiv(SumRatField(first10, "usage_pct"), FromInt(Len(first10))),
              IF first10 = << >> THEN Zero
              ELSE RDiv(SumRatField(first10, "true_shooting_pct"), FromInt(Len(first10))),
              FromInt(IF Len(prior_games) < 50 THEN Len(prior_games) ELSE 50),
              IF Get(current_game, "is_home", FALSE) THEN FromInt(1) ELSE Zero,
              FromInt(TrainRestDays(prior_games, current_game)),
              Get(opp, "def_rating", FromInt(110)),
              Get(opp, "pace", FromInt(100)),
              Get(opp, "pts_allowed_avg", FromInt(110)),
              FromInt(Get(injury_counts, Get(current_game, "team_abbr", ""), 0)) >>

(* the samples of one player: games[i] for i = 5, 6, ... (0-based) with    *)
(* the games after it as prior games, when those are at least 5            *)
RECURSIVE TrainingSamples_WithTarget(_, _, _, _)
TrainingSamples_WithTarget(games, i, team_def_stats, injury_counts) ==
    IF i > Len(games) THEN << >>
    ELSE LET current_game == games[i]
             prior_games == SubSeq(games, i, Len(games))
             rest == TrainingSamples_WithTarget(games, i + 1, team_def_stats, injury_counts)
         IN  IF Len(prior_games) < 5 THEN rest
             ELSE << [ X |-> build_features(prior_games, current_game, team_def_stats,
                                            injury_counts),
                       y |-> [stat \in STAT_TARGETS |-> FieldOf(current_game, stat)] ] >>
                  \o rest

RECURSIVE TrainingSamples(_, _, _, _)
TrainingSamples(games, i, team_def_stats, injury_counts) ==
    IF i > Len(games) THEN << >>
    ELSE LET current_game == games[i]
             prior_games == SubSeq(games, i + 1, Len(games))
             rest == TrainingSamples(games, i + 1, team_def_stats, injury_counts)
         IN  IF Len(prior_games) < 5 THEN rest
             ELSE << [ X |-> build_features(prior_games, current_game, team_def_stats,
                                            injury_counts),
                       y |-> [stat \in STAT_TARGETS |-> FieldOf(current_game, stat)] ] >>
                  \o rest

build_training_data(games, team_def_stats, injury_counts) ==
    LET samples == IF Len(games) < 8 THEN << >>
                   ELSE TrainingSamples(games, 6, team_def_stats, injury_counts)
    IN  [stat \in STAT_TARGETS |->
            [ X |-> [k \in DOMAIN samples |-> samples[k].X],
              y |-> [k \in DOMAIN samples |-> samples[k].y[stat]] ]]

(***************************************************************************)
(* One player's stored game rows, most recent first.  The latest game was  *)
(* played on LatestDay; a home game follows its predecessor by a day, an   *)
(* away game by eight.                                                     *)
(***************************************************************************)
MaxGames == 12

LatestDay == 100

HomeGame ==
    [ pts |-> 10, reb |-> 4, ast |-> 2, fg3m |-> 1,
      min |-> << "2", "4", ":", "3", "0" >>,
      usage_pct |-> Rat(1, 4), true_shooting_pct |-> Rat(1, 2),
      is_home |-> TRUE, opponent_id |-> 1, team_abbr |-> "BOS" ]

AwayGame ==
    [ pts |-> 20, ast |-> 5, fg3m |-> 0, min |-> << "3", "1" >>,
      is_home |-> FALSE, opponent_id |-> 2, team_abbr |-> "BOS" ]

GapAfter(home) == IF home THEN 1 ELSE 8

RECURSIVE DayOfGame(_, _)
DayOfGame(homes, k) ==
    IF k = 1 THEN LatestDay ELSE DayOfGame(homes, k - 1) - GapAfter(homes[k])

GamesOf(homes) ==
    [k \in DOMAIN homes |->
        (IF homes[k] THEN HomeGame ELSE AwayGame) @@ [date |-> << DayOfGame(homes, k) >>]]

PlayerGames == { GamesOf(h) : h \in UNION { [1..n -> BOOLEAN] : n \in 0..MaxGames } }

TeamDefStats ==
    [ x \in { "1" } |->
        [def_rating |-> Rat(1125, 10), pace |-> FromInt(98), pts_allowed_avg |-> FromInt(112)] ]

InjuryCounts == [ x \in { "BOS" } |-> 2 ]

(* today's game: the day after the latest game against team 1, or ten     *)
(* days after it against team 2, which has no defensive stats              *)
TodaysGames ==
    { [opponent_id |-> 1, today |-> LatestDay + 1],
      [opponent_id |-> 2, today |-> LatestDay + 10] }

InitFeatures ==
    /\ PredictIdle /\ VerifyIdle /\ StatsIdle /\ MatchIdle /\ RawIdle /\ MinutesIdle /\ PipelineIdle /\ ContextIdle /\ RegistryIdle
    /\ player_games \in PlayerGames
    /\ feature_ctx = << >>
    /\ features_out = << >>
    /\ features_pc = "start"

(* predict: build_ml_features on the latest 15 rows, for today's game *)
CallBuildMlFeatures ==
    /\ features_pc = "start"
    /\ \E is_home \in BOOLEAN, game \in TodaysGames :
          /\ feature_ctx' = [ is_home |-> is_home, opponent_id |-> game.opponent_id,
                              today |-> game.today ]
          /\ features_out' = build_ml_features(Take(player_games, 15), is_home,
                                               game.opponent_id, TeamDefStats, game.today)
    /\ features_pc' = "online"
    /\ UNCHANGED player_games
    /\ UNCHANGED << predictVars, verifyVars, statsVars, matchVars, rawVars, minutesVars, pipelineVars, contextVars, registryVars >>

(* train_model: build_training_data on the latest 50 rows of the player *)
CallBuildTrainingData ==
    /\ features_pc = "start"
    /\ feature_ctx' = << >>
    /\ features_out' = build_training_data(Take(player_games, 50), TeamDefStats, InjuryCounts)
    /\ features_pc' = "training"
    /\ UNCHANGED player_games
    /\ UNCHANGED << predictVars, verifyVars, statsVars, matchVars, rawVars, minutesVars, pipelineVars, contextVars, registryVars >>

NextFeatures == CallBuildMlFeatures \/ CallBuildTrainingData

SpecFeatures == InitFeatures /\ [][NextFeatures]_vars

SlotOf(name) == CHOOSE i \in DOMAIN FEATURE_NAMES : FEATURE_NAMES[i] = name

(* C17: build_ml_features returns None, not a padded vector, for fewer     *)
(* than 5 prior games (4 included) and a vector otherwise; every training  *)
(* sample is built from at least 5 prior games, one sample per game that   *)
(* has 5 games after it and 5 before it in the log.                        *)
C17_FiveGameFloor ==
    /\ features_pc = "online" =>
          /\ Len(player_games) < 5 => features_out = None
          /\ Len(player_games) >= 5 =>
                /\ features_out # None
                /\ features_out[SlotOf("games_available")] = FromInt(Len(player_games))
    /\ features_pc = "training" =>
          \A stat \in STAT_TARGETS :
              /\ Len(features_out[stat].X) =
                     (IF Len(player_games) >= 11 THEN Len(player_games) - 10 ELSE 0)
              /\ Len(features_out[stat].y) = Len(features_out[stat].X)
              /\ \A k \in DOMAIN features_out[stat].X :
                     RLe(FromInt(5), features_out[stat].X[k][SlotOf("games_available")])

C17_Witness ==
    /\ features_pc = "online"
    /\ Len(player_games) = 4
    /\ features_out = None

C17_WitnessTraining ==
    /\ features_pc = "training"
    /\ Len(features_out["pts"].X) = 1
    /\ features_out["pts"].X[1][SlotOf("games_available")] = FromInt(5)

ContextSlots == { SlotOf("rest_days"), SlotOf("team_injuries_count") }

(* the game a training sample was built for, and the games before it *)
SampleGame(k) == player_games[5 + k]

SamplePrior(k) == SubSeq(player_games, 6 + k, Len(player_games))

(* C18: both builders emit 26 slots in the order of FEATURE_NAMES; on the  *)
(* prior games, home flag and opponent of a training sample                *)
(* build_ml_features gives the same value in every slot except rest_days   *)
(* and team_injuries_count.                                                *)
C18_SameSlotsBothBuilders ==
    /\ Len(FEATURE_NAMES) = 26
    /\ (features_pc = "online" /\ features_out # None) => Len(features_out) = Len(FEATURE_NAMES)
    /\ features_pc = "training" =>
          \A stat \in STAT_TARGETS : \A k \in DOMAIN features_out[stat].X :
              LET training == features_out[stat].X[k]
                  online == build_ml_features(SamplePrior(k), SampleGame(k).is_home,
                                              SampleGame(k).opponent_id, TeamDefStats,
                                              LatestDay + 1)
              IN  /\ Len(training) = Len(FEATURE_NAMES)
                  /\ Len(online) = Len(FEATURE_NAMES)
                  /\ \A slot \in DOMAIN FEATURE_NAMES \ ContextSlots :
                         training[slot] = online[slot]

C18_Witness ==
    /\ features_pc = "training"
    /\ Len(features_out["pts"].X) = 2
    /\ features_out["pts"].X[1][SlotOf("team_injuries_count")] = FromInt(2)
    /\ features_out["pts"].X[1][SlotOf("pts_trend")] = FromInt(-50)
    /\ features_out["pts"].X[1][SlotOf("opp_def_rating")] = FromInt(110)
    /\ features_out["pts"].X[2][SlotOf("pts_trend")] = Zero

(***************************************************************************)
(* Line matcher.  Names and mapping keys are sequences of one-character    *)
(* strings; the lines mapping is the sequence of its (key, lines) pairs in *)
(* insertion order, with distinct keys; {} is the empty function.          *)
(***************************************************************************)
UpperCase ==
    << "A", "B", "C", "D", "E", "F", "G", "H", "I", "J", "K", "L", "M",
       "N", "O", "P", "Q", "R", "S", "T", "U", "V", "W", "X", "Y", "Z" >>

LowerCase ==
    << "a", "b", "c", "d", "e", "f", "g", "h", "i", "j", "k", "l", "m",
       "n", "o", "p", "q", "r", "s", "t", "u", "v", "w", "x", "y", "z" >>

(* str.lower(), character by character *)
Lower(s) ==
    [i \in DOMAIN s |->
        IF \E k \in DOMAIN UpperCase : UpperCase[k] = s[i]
        THEN LowerCase[CHOOSE k \in DOMAIN UpperCase : UpperCase[k] = s[i]]
        ELSE s[i]]

(* str.strip() *)
RECURSIVE Strip(_)
Strip(s) ==
    IF s = << >> THEN s
    ELSE IF s[1] = " " THEN Strip(Tail(s))
    ELSE IF s[Len(s)] = " " THEN Strip(SubSeq(s, 1, Len(s) - 1))
    ELSE s

StartsWith(s, prefix) ==
    Len(prefix) <= Len(s) /\ SubSeq(s, 1, Len(prefix)) = prefix

(* str.replace(old, ""): every occurrence, left to right, not rescanned *)
RECURSIVE Remove(_, _)
Remove(s, old) ==
    IF Len(s) < Len(old) THEN s
    ELSE IF StartsWith(s, old) THEN Remove(SubSeq(s, Len(old) + 1, Len(s)), old)
    ELSE << s[1] >> \o Remove(Tail(s), old)

SUFFIXES ==
    << << " ", "J", "r", "." >>,
       << " ", "S", "r", "." >>,
       << " ", "I", "I", "I" >>,
       << " ", "I", "I" >>,
       << " ", "I", "V" >>,
       << " ", "J", "r" >>,
       << " ", "S", "r" >> >>

RECURSIVE RemoveSuffixes(_, _)
RemoveSuffixes(s, k) ==
    IF k > Len(SUFFIXES) THEN s ELSE RemoveSuffixes(Remove(s, SUFFIXES[k]), k + 1)

normalize_name(name) ==
    IF name = << >> THEN << >>
    ELSE Strip(Lower(RemoveSuffixes(Strip(name), 1)))

(* str.split(): the maximal runs of non-blank characters *)
RECURSIVE Split(_)
Split(s) ==
    IF s = << >> THEN << >>
    ELSE IF s[1] = " " THEN Split(Tail(s))
    ELSE LET n == IF Contains(s, " ")
                  THEN (CHOOSE k \in DOMAIN s : s[k] = " " /\ \A j \in 1..(k - 1) : s[j] # " ") - 1
                  ELSE Len(s)
         IN  << SubSeq(s, 1, n) >> \o Split(SubSeq(s, n + 1, Len(s)))

InSeq(x, sq) == \E i \in DOMAIN sq : sq[i] = x

KeyAt(dict, i) == dict[i][1]

LinesAt(dict, i) == dict[i][2]

NoLines == << >>

(* [key for key in lines_dict if last_name in key.split()], as positions *)
Candidates(dict, last_name) ==
    SelectSeq([i \in DOMAIN dict |-> i], LAMBDA i : InSeq(last_name, Split(KeyAt(dict, i))))

(* the first candidate is taken whatever its first name *)
FirstWithInitial_AnyFirst(dict, matches, first_initial) ==
    IF matches = << >> THEN NoLines ELSE LinesAt(dict, matches[1])

(* for match in matches: if match.split()[0].startswith(first_initial) *)
FirstWithInitial(dict, matches, first_initial) ==
    LET hits == SelectSeq(matches,
                          LAMBDA i : StartsWith(Split(KeyAt(dict, i))[1], first_initial))
    IN  IF hits = << >> THEN NoLines ELSE LinesAt(dict, hits[1])

(* a lone candidate must share the initial too *)
BySurname_InitialOnly(dict, parts) ==
    FirstWithInitial(dict, Candidates(dict, parts[Len(parts)]), << parts[1][1] >>)

BySurname(dict, parts) ==
    LET last_name == parts[Len(parts)]
        first_initial == IF parts[1] # << >> THEN << parts[1][1] >> ELSE << >>
        matches == Candidates(dict, last_name)
    IN  IF Len(matches) = 1 THEN LinesAt(dict, matches[1])
        ELSE FirstWithInitial(dict, matches, first_initial)

match_player_line(name, dict) ==
    LET name_key == normalize_name(name)
        parts == Split(name_key)
    IN  IF \E i \in DOMAIN dict : KeyAt(dict, i) = name_key
        THEN LinesAt(dict, CHOOSE i \in DOMAIN dict : KeyAt(dict, i) = name_key)
        ELSE IF Len(parts) >= 2 THEN BySurname(dict, parts)
        ELSE NoLines

(***************************************************************************)
(* Player names as stored with the game rows, and the normalized names     *)
(* the lines were fetched under; every key has its own points line.        *)
(***************************************************************************)
(* "Jr. Smith Jr." *)
Name_JrSmithJr == << "J", "r", ".", " ", "S", "m", "i", "t", "h", " ", "J", "r", "." >>

(* "John Smith" *)
Name_JohnSmith == << "J", "o", "h", "n", " ", "S", "m", "i", "t", "h" >>

(* "Jaden Smith Jr." *)
Name_JadenSmithJr == << "J", "a", "d", "e", "n", " ", "S", "m", "i", "t", "h", " ", "J", "r", "." >>

(* "Will Smith III" *)
Name_WillSmithIII == << "W", "i", "l", "l", " ", "S", "m", "i", "t", "h", " ", "I", "I", "I" >>

(* " Al Horford " *)
Name_AlHorford == << " ", "A", "l", " ", "H", "o", "r", "f", "o", "r", "d", " " >>

(* "Smith" *)
Name_Smith == << "S", "m", "i", "t", "h" >>

(* "" *)
Name_Empty == << >>

PlayerNames ==
    { Name_JrSmithJr,
      Name_JohnSmith,
      Name_JadenSmithJr,
      Name_WillSmithIII,
      Name_AlHorford,
      Name_Smith,
      Name_Empty }

(* "smith" *)
Key_smith == << "s", "m", "i", "t", "h" >>

(* "john smith" *)
Key_john_smith == << "j", "o", "h", "n", " ", "s", "m", "i", "t", "h" >>

(* "jane smith" *)
Key_jane_smith == << "j", "a", "n", "e", " ", "s", "m", "i", "t", "h" >>

(* "will smith" *)
Key_will_smith == << "w", "i", "l", "l", " ", "s", "m", "i", "t", "h" >>

(* "al horford" *)
Key_al_horford == << "a", "l", " ", "h", "o", "r", "f", "o", "r", "d" >>

LineKeys == << Key_smith, Key_john_smith, Key_jane_smith, Key_will_smith, Key_al_horford >>

MaxKeys == 3

LinesFor(k) == "pts" :> Rat(205 + 10 * k, 10)

LinesDicts ==
    { [i \in DOMAIN order |-> << LineKeys[order[i]], LinesFor(order[i]) >>] :
        order \in { o \in UNION { [1..n -> DOMAIN LineKeys] : n \in 0..MaxKeys } :
                      \A a, b \in DOMAIN o : a # b => o[a] # o[b] } }

InitMatch ==
    /\ PredictIdle /\ VerifyIdle /\ StatsIdle /\ FeaturesIdle /\ RawIdle /\ MinutesIdle /\ PipelineIdle /\ ContextIdle /\ RegistryIdle
    /\ player_name \in PlayerNames
    /\ lines_dict \in LinesDicts
    /\ matched = NoLines
    /\ match_pc = "start"

(* lambda_handler: player_lines = match_player_line(player_name, lines) *)
MatchPlayerLine ==
    /\ match_pc = "start"
    /\ matched' = match_player_line(player_name, lines_dict)
    /\ match_pc' = "done"
    /\ UNCHANGED << player_name, lines_dict >>
    /\ UNCHANGED << predictVars, verifyVars, statsVars, featureVars, rawVars, minutesVars, pipelineVars, contextVars, registryVars >>

NextMatch == MatchPlayerLine

SpecMatch == InitMatch /\ [][NextMatch]_vars

(***************************************************************************)
(* The normalized form of each player name, written out: trimmed, suffixes *)
(* stripped, lowercased.                                                   *)
(***************************************************************************)
(* "jr. smith" *)
Key_jr_smith == << "j", "r", ".", " ", "s", "m", "i", "t", "h" >>

(* "jaden smith" *)
Key_jaden_smith == << "j", "a", "d", "e", "n", " ", "s", "m", "i", "t", "h" >>

Normalized(name) ==
    CASE name = Name_JrSmithJr -> Key_jr_smith
      [] name = Name_JohnSmith -> Key_john_smith
      [] name = Name_JadenSmithJr -> Key_jaden_smith
      [] name = Name_WillSmithIII -> Key_will_smith
      [] name = Name_AlHorford -> Key_al_horford
      [] name = Name_Smith -> Key_smith
      [] name = Name_Empty -> << >>

MatchDone == match_pc = "done"

Tokens(name) == Split(Normalized(name))

ExactKeys == { i \in DOMAIN lines_dict : KeyAt(lines_dict, i) = Normalized(player_name) }

(* positions of the keys that have the surname among their tokens *)
WithSurname ==
    IF Tokens(player_name) = << >> THEN {}
    ELSE { i \in DOMAIN lines_dict :
             InSeq(Tokens(player_name)[Len(Tokens(player_name))], Split(KeyAt(lines_dict, i))) }

(* those whose first token starts with the first character of the name *)
WithInitial ==
    { i \in WithSurname : KeyAt(lines_dict, i)[1] = Normalized(player_name)[1] }

(* C19: an exact normalized match returns that key's lines; without one, a *)
(* name of two or more tokens whose surname occurs among the tokens of     *)
(* exactly one key gets that key's lines, so "Jr. Smith Jr." (normalized   *)
(* "jr. smith") against the single key "smith" gets the lines of "smith".  *)
C19_UniqueSurnameResolves ==
    MatchDone =>
        /\ normalize_name(player_name) = Normalized(player_name)
        /\ \A i \in ExactKeys : matched = LinesAt(lines_dict, i)
        /\ (ExactKeys = {} /\ Len(Tokens(player_name)) >= 2 /\ Cardinality(WithSurname) = 1) =>
               \A i \in WithSurname : matched = LinesAt(lines_dict, i)
        /\ (player_name = Name_JrSmithJr /\ Len(lines_dict) = 1
              /\ KeyAt(lines_dict, 1) = Key_smith) => matched = LinesFor(1)

C19_Witness ==
    /\ MatchDone
    /\ player_name = Name_JrSmithJr
    /\ Len(lines_dict) = 1
    /\ KeyAt(lines_dict, 1) = Key_smith
    /\ matched = LinesFor(1)

C19_WitnessAmongOthers ==
    /\ MatchDone
    /\ player_name = Name_JadenSmithJr
    /\ Len(lines_dict) = 2
    /\ ExactKeys = {}
    /\ WithSurname = { 2 }
    /\ KeyAt(lines_dict, 2) = Key_will_smith
    /\ matched = LinesAt(lines_dict, 2)

(* C20: without an exact key and with two or more keys holding the         *)
(* surname, the result is the lines of the first of them, in mapping       *)
(* order, whose first token starts with the name's initial, and empty when *)
(* none does; without an exact key the lines of a key that lacks the       *)
(* surname are never returned.                                             *)
C20_CollisionByInitial ==
    MatchDone =>
        /\ (ExactKeys = {} /\ Len(Tokens(player_name)) >= 2 /\ Cardinality(WithSurname) >= 2) =>
               IF WithInitial = {}
               THEN DOMAIN matched = {}
               ELSE matched =
                        LinesAt(lines_dict, CHOOSE i \in WithInitial :
                                                \A j \in WithInitial : i <= j)
        /\ (ExactKeys = {} /\ DOMAIN matched # {}) =>
               \E i \in WithSurname : matched = LinesAt(lines_dict, i)
        /\ (ExactKeys = {} /\ Len(Tokens(player_name)) < 2) => DOMAIN matched = {}

C20_Witness ==
    /\ MatchDone
    /\ player_name = Name_JadenSmithJr
    /\ Len(lines_dict) = 3
    /\ KeyAt(lines_dict, 1) = Key_will_smith
    /\ KeyAt(lines_dict, 2) = Key_jane_smith
    /\ KeyAt(lines_dict, 3) = Key_john_smith
    /\ matched = LinesAt(lines_dict, 2)

C20_WitnessUnresolved ==
    /\ MatchDone
    /\ player_name = Name_JadenSmithJr
    /\ Cardinality(WithSurname) = 2
    /\ WithInitial = {}
    /\ DOMAIN matched = {}

(***************************************************************************)
(* Stored values that are not numbers.  A value read from a game row or a  *)
(* ProcessedStats entry is a number, None or a string; the calculations    *)
(* read it as float(v or 0).                                               *)
(***************************************************************************)
Number(n) == [kind |-> "number", num |-> n, chars |-> << >>]

NoneValue == [kind |-> "None", num |-> 0, chars |-> << >>]

Str(s) == [kind |-> "str", num |-> 0, chars |-> s]

(* `v or 0` replaces v: None, 0 and "" are falsy *)
Falsy(v) ==
    \/ v.kind = "None"
    \/ v.kind = "number" /\ v.num = 0
    \/ v.kind = "str" /\ v.chars = << >>

(* float(v or 0) raises ValueError *)
FloatRaises(v) == ~ Falsy(v) /\ v.kind = "str" /\ ~ IsFloatLiteral(v.chars)

(* float(v or 0) when it returns; the strings used hold whole numbers *)
FloatValue(v) ==
    IF Falsy(v) THEN 0
    ELSE IF v.kind = "number" THEN v.num
    ELSE ParseFloat(v.chars)[1]

Raised == [raised |-> TRUE, exception |-> "ValueError"]

Returned(v) == [raised |-> FALSE, value |-> v]

(* some float(g.get(f, 0) or 0) over these rows and fields raises *)
ReadRaises(logs, fields) ==
    \E i \in DOMAIN logs : \E f \in fields \cap DOMAIN logs[i] : FloatRaises(logs[i][f])

(* the rows read, as the calculation sees them when every read returns *)
Numeric(logs) == [i \in DOMAIN logs |-> [f \in DOMAIN logs[i] |-> FloatValue(logs[i][f])]]

RECURSIVE MaxWindow(_)
MaxWindow(windows) ==
    IF windows = << >> THEN 0
    ELSE LET m == MaxWindow(Tail(windows))
         IN  IF Head(windows) > m THEN Head(windows) ELSE m

(* calculate_rolling_averages reads every statistic of every row of every  *)
(* window; parse_minutes absorbs its own ValueError                        *)
Outcome_calculate_rolling_averages(logs, windows) ==
    IF ReadRaises(Take(logs, MaxWindow(windows)), { STAT_FIELDS[i] : i \in DOMAIN STAT_FIELDS })
    THEN Raised
    ELSE Returned(calculate_rolling_averages(Numeric(Take(logs, MaxWindow(windows))), windows))

(* calculate_trend returns 0.0 before any read when the log is short *)
Outcome_calculate_trend(logs, field, window) ==
    IF Len(logs) < window * 2 THEN Returned(Zero)
    ELSE IF ReadRaises(SubSeq(logs, 1, window * 2), { field }) THEN Raised
    ELSE Returned(calculate_trend(Numeric(SubSeq(logs, 1, window * 2)), field, window))

(* calculate_consistency returns 50.0 before any read below 3 rows *)
Outcome_calculate_consistency(logs, field, window) ==
    IF Len(Take(logs, window)) < 3 THEN Returned(FromInt(50))
    ELSE IF ReadRaises(Take(logs, window), { field }) THEN Raised
    ELSE Returned(calculate_consistency(Numeric(Take(logs, window)), field, window))

(* a stored value as predict_player_stat sees it when the read returns *)
StoredNumber(v) == IF Falsy(v) THEN Zero ELSE FromInt(FloatValue(v))

(* the entry as read up to the early return: the window values only *)
NumericWindows(raw, stat) ==
    ProcessedStats(stat, StoredNumber(raw.last_5), StoredNumber(raw.last_10),
                   StoredNumber(raw.last_20), None, None)

NumericProcessed(raw, stat) ==
    ProcessedStats(stat, StoredNumber(raw.last_5), StoredNumber(raw.last_10),
                   StoredNumber(raw.last_20), StoredNumber(raw.trend),
                   StoredNumber(raw.consistency))

(* predict_player_stat reads the three window values, returns None when    *)
(* no window contributes, then reads the trend and the consistency         *)
Outcome_predict_player_stat(raw, stat) ==
    IF \E i \in DOMAIN WindowKeys : FloatRaises(raw[WindowKeys[i]]) THEN Raised
    ELSE IF TotalWeight(NumericWindows(raw, stat), stat, 3) = Zero
    THEN Returned(NoPrediction)
    ELSE IF FloatRaises(raw.trend) \/ FloatRaises(raw.consistency) THEN Raised
    ELSE Returned(predict_player_stat(NumericProcessed(raw, stat), stat, None, None))

(***************************************************************************)
(* Inputs: a log of up to 2 * TrendWindow + 1 rows of 1 point in which at  *)
(* most one row holds another value, or a ProcessedStats entry whose       *)
(* values are drawn from RawValues.                                        *)
(***************************************************************************)
RawValues ==
    { Number(0), Number(2), NoneValue, Str(<< >>), Str(<< "7" >>), Str(<< "D", "N", "P" >>) }

RawLogsOfLength(n) ==
    { [i \in 1..n |-> [pts |-> IF i = k THEN v ELSE Number(1)]] : k \in 0..n, v \in RawValues }

PlainProcessed ==
    [ last_5 |-> Number(2), last_10 |-> Number(2), last_20 |-> Number(0),
      trend |-> Number(2), consistency |-> Number(2) ]

RawProcessed ==
    { [ last_5 |-> a, last_10 |-> b, last_20 |-> Number(0), trend |-> t, consistency |-> c ] :
        a \in RawValues, b \in { Number(0), Number(2) }, t \in RawValues, c \in RawValues }

InitRaw ==
    /\ PredictIdle /\ VerifyIdle /\ StatsIdle /\ FeaturesIdle /\ MatchIdle /\ MinutesIdle /\ PipelineIdle /\ ContextIdle /\ RegistryIdle
    /\ \/ /\ \E n \in 0..(2 * TrendWindow + 1) : raw_logs \in RawLogsOfLength(n)
          /\ raw_processed = PlainProcessed
       \/ /\ raw_logs = << >>
          /\ raw_processed \in RawProcessed
    /\ raw_out = << >>
    /\ raw_pc = "start"

CallRollingAverages ==
    /\ raw_pc = "start"
    /\ raw_out' = [ operation |-> "calculate_rolling_averages",
                    outcome |-> Outcome_calculate_rolling_averages(raw_logs, DefaultWindows) ]
    /\ raw_pc' = "done"
    /\ UNCHANGED << raw_logs, raw_processed >>
    /\ UNCHANGED << predictVars, verifyVars, statsVars, featureVars, matchVars, minutesVars, pipelineVars, contextVars, registryVars >>

CallTrend ==
    /\ raw_pc = "start"
    /\ raw_out' = [ operation |-> "calculate_trend",
                    outcome |-> Outcome_calculate_trend(raw_logs, "pts", TrendWindow) ]
    /\ raw_pc' = "done"
    /\ UNCHANGED << raw_logs, raw_processed >>
    /\ UNCHANGED << predictVars, verifyVars, statsVars, featureVars, matchVars, minutesVars, pipelineVars, contextVars, registryVars >>

CallConsistency ==
    /\ raw_pc = "start"
    /\ raw_out' = [ operation |-> "calculate_consistency",
                    outcome |-> Outcome_calculate_consistency(raw_logs, "pts", ConsistencyWindow) ]
    /\ raw_pc' = "done"
    /\ UNCHANGED << raw_logs, raw_processed >>
    /\ UNCHANGED << predictVars, verifyVars, statsVars, featureVars, matchVars, minutesVars, pipelineVars, contextVars, registryVars >>

CallPredictPlayerStat ==
    /\ raw_pc = "start"
    /\ raw_out' = [ operation |-> "predict_player_stat",
                    outcome |-> Outcome_predict_player_stat(raw_processed, "pts") ]
    /\ raw_pc' = "done"
    /\ UNCHANGED << raw_logs, raw_processed >>
    /\ UNCHANGED << predictVars, verifyVars, statsVars, featureVars, matchVars, minutesVars, pipelineVars, contextVars, registryVars >>

NextRaw == CallRollingAverages \/ CallTrend \/ CallConsistency \/ CallPredictPlayerStat

SpecRaw == InitRaw /\ [][NextRaw]_vars

(***************************************************************************)
(* C21: a non-numeric statistic value is treated as 0 and never raised:    *)
(* each of calculate_rolling_averages, calculate_trend,                    *)
(* calculate_consistency and predict_player_stat returns, for an input     *)
(* holding such a value, what it returns when the value is 0.              *)
(***************************************************************************)
NonNumeric(v) == v.kind = "str" /\ v.chars # << >> /\ ~ IsFloatLiteral(v.chars)

AsZero(v) == IF NonNumeric(v) THEN Number(0) ELSE v

LogsAsZero == [i \in DOMAIN raw_logs |-> [f \in DOMAIN raw_logs[i] |-> AsZero(raw_logs[i][f])]]

ProcessedAsZero == [k \in DOMAIN raw_processed |-> AsZero(raw_processed[k])]

OutcomeAsZero(operation) ==
    CASE operation = "calculate_rolling_averages" ->
             Outcome_calculate_rolling_averages(LogsAsZero, DefaultWindows)
      [] operation = "calculate_trend" ->
             Outcome_calculate_trend(LogsAsZero, "pts", TrendWindow)
      [] operation = "calculate_consistency" ->
             Outcome_calculate_consistency(LogsAsZero, "pts", ConsistencyWindow)
      [] operation = "predict_player_stat" ->
             Outcome_predict_player_stat(ProcessedAsZero, "pts")

C21_NonNumericTreatedAsZero ==
    raw_pc = "done" =>
        /\ ~ raw_out.outcome.raised
        /\ raw_out.outcome = OutcomeAsZero(raw_out.operation)

(***************************************************************************)
(* parse_minutes on its own: the minutes string of a game row, up to       *)
(* MaxMinutesLen characters of a digit alphabet with ':', '.' and a        *)
(* letter, and the strings of test_parse_minutes.                          *)
(***************************************************************************)
MaxMinutesLen == 5

MinutesAlphabet == { "0", "3", ":", ".", "a" }

TestedMinutes ==
    { << "3", "2", ":", "1", "5" >>, << "4", "0", ":", "0", "0" >>, << "2", "5" >> }

MinutesStrings ==
    TestedMinutes \cup UNION { [1..n -> MinutesAlphabet] : n \in 0..MaxMinutesLen }

InitMinutes ==
    /\ PredictIdle /\ VerifyIdle /\ StatsIdle /\ FeaturesIdle /\ MatchIdle /\ RawIdle /\ PipelineIdle /\ ContextIdle /\ RegistryIdle
    /\ minutes_str \in MinutesStrings
    /\ minutes_out = << >>
    /\ minutes_pc = "start"

ParseMinutes ==
    /\ minutes_pc = "start"
    /\ minutes_out' = parse_minutes(minutes_str)
    /\ minutes_pc' = "done"
    /\ UNCHANGED minutes_str
    /\ UNCHANGED << predictVars, verifyVars, statsVars, featureVars, matchVars, rawVars, pipelineVars, contextVars, registryVars >>

NextMinutes == ParseMinutes

SpecMinutes == InitMinutes /\ [][NextMinutes]_vars

(***************************************************************************)
(* C22: parse_minutes gives MM + SS/60 for an "MM:SS" string, its value    *)
(* for a bare numeric string, and 0.0 for the empty string, None, "0" and  *)
(* every other (unparsable) string.                                        *)
(***************************************************************************)
Colons(s) == { i \in DOMAIN s : s[i] = ":" }

(* two numerals around one colon *)
IsClockString(s) ==
    /\ Cardinality(Colons(s)) = 1
    /\ LET i == CHOOSE k \in Colons(s) : TRUE
       IN  /\ IsFloatLiteral(SubSeq(s, 1, i - 1))
           /\ IsFloatLiteral(SubSeq(s, i + 1, Len(s)))

ClockMinutes(s) ==
    LET i == CHOOSE k \in Colons(s) : TRUE
    IN  RAdd(ParseFloat(SubSeq(s, 1, i - 1)),
             RDiv(ParseFloat(SubSeq(s, i + 1, Len(s))), FromInt(60)))

C22_ParseMinutes ==
    minutes_pc = "done" =>
        /\ IsClockString(minutes_str) => minutes_out = ClockMinutes(minutes_str)
        /\ (Colons(minutes_str) = {} /\ IsFloatLiteral(minutes_str)) => minutes_out = ParseFloat(minutes_str)
        /\ (~ IsClockString(minutes_str) /\ ~ (Colons(minutes_str) = {} /\ IsFloatLiteral(minutes_str))) =>
               minutes_out = Zero
        /\ minutes_str = << "3", "2", ":", "1", "5" >> => minutes_out = Rat(3225, 100)
        /\ minutes_str = << "4", "0", ":", "0", "0" >> => minutes_out = FromInt(40)

(***************************************************************************)
(* The scheduled runs over one table: fetch_data stores game rows,         *)
(* process_stats stores one ProcessedStats item per player and day         *)
(* (sk = PROCESSED#<date>), predict reads the item with the greatest sort  *)
(* key and, when models are loaded, the player's game rows.  Each run is   *)
(* a separate invocation; the table's reads and writes are the atomic      *)
(* steps.                                                                  *)
(*   clock: the day datetime.now() gives; player_rows: the game rows of a  *)
(*   player, most recent first; processed_table: the stored items by       *)
(*   (player, date); process_run / predict_run: the loop iteration in      *)
(*   progress; snapshot_source and last_stored are history: the rows an    *)
(*   item was computed from, and the item of the latest storing run.       *)
(***************************************************************************)
MaxDays == 2

MaxRows == 5

PipelinePlayers == { 1 }

(* another player, whose item of the last day is in the table throughout *)
OtherPlayer == [player_id |-> 2]

Days == 9..(9 + MaxDays)

(* strftime("%d"): the day of the month, zero-padded to two digits; year   *)
(* and month are the same for every date used                              *)
DateKey(day) == << ToString(day \div 10), ToString(day % 10) >>

(* the order of two sort keys: character by character *)
LexLess(a, b) ==
    \/ \E i \in DOMAIN a \cap DOMAIN b :
          /\ \A j \in 1..(i - 1) : a[j] = b[j]
          /\ DigitValue(a[i]) < DigitValue(b[i])
    \/ /\ Len(a) < Len(b)
       /\ \A j \in DOMAIN a : a[j] = b[j]

(* game k of a player is played on day k + 3 *)
GameDay(k) == k + 3

GameRecord(k) == [game_id |-> k, game_date |-> DateKey(GameDay(k)), pts |-> 1 + (k % 2)]

ProcessedStatNames == { "pts", "reb", "ast", "fg3m" }

(* float_to_decimal: every float is rounded to 3 decimals *)
Decimal3(x) == Round(x, 1000)

(* processed_data of lambda_handler and the item store_processed_stats puts *)
ProcessedItem(player_id, day, logs) ==
    LET rolling == calculate_rolling_averages(logs, DefaultWindows)
    IN  [ player_id |-> player_id,
          processed_date |-> DateKey(day),
          rolling_averages |->
              [w \in DOMAIN rolling |-> [f \in DOMAIN rolling[w] |-> Decimal3(rolling[w][f])]],
          trends |->
              [s \in ProcessedStatNames |-> Decimal3(calculate_trend(logs, s, TrendWindow))],
          consistency |->
              [s \in ProcessedStatNames |->
                  Decimal3(calculate_consistency(logs, s, ConsistencyWindow))],
          games_analyzed |-> Len(logs),
          entity_type |-> "processed_stats" ]

NoItem == [entity_type |-> "none"]

StoredDates(table, player_id) == { k[2] : k \in { q \in DOMAIN table : q[1] = player_id } }

(* the item with the smallest sort key is returned *)
get_processed_stats_Oldest(table, player_id) ==
    LET dates == StoredDates(table, player_id)
    IN  IF dates = {} THEN NoItem
        ELSE table[<< player_id,
                      CHOOSE d \in dates : \A e \in dates \ { d } : LexLess(d, e) >>]

(* query on pk with sk descending, Limit=1 *)
get_processed_stats(table, player_id) ==
    LET dates == StoredDates(table, player_id)
    IN  IF dates = {} THEN NoItem
        ELSE table[<< player_id,
                      CHOOSE d \in dates : \A e \in dates \ { d } : LexLess(e, d) >>]

RunIdle == [pc |-> "idle"]

OtherRows == [k \in 1..3 |-> GameRecord(4 - k)]

InitPipeline ==
    /\ PredictIdle /\ VerifyIdle /\ StatsIdle /\ FeaturesIdle /\ MatchIdle /\ RawIdle /\ MinutesIdle /\ ContextIdle /\ RegistryIdle
    /\ clock = 9
    /\ player_rows = [p \in PipelinePlayers |-> << >>]
    /\ processed_table =
           (<< OtherPlayer.player_id, DateKey(9 + MaxDays) >> :>
                ProcessedItem(OtherPlayer.player_id, 9 + MaxDays, OtherRows))
    /\ snapshot_source = (<< OtherPlayer.player_id, DateKey(9 + MaxDays) >> :> OtherRows)
    /\ last_stored = [p \in PipelinePlayers |-> NoItem]
    /\ process_run = RunIdle
    /\ predict_run = RunIdle

(* the day changes *)
Tick ==
    /\ clock < 9 + MaxDays
    /\ clock' = clock + 1
    /\ UNCHANGED << player_rows, processed_table, snapshot_source, last_stored,
                    process_run, predict_run >>
    /\ UNCHANGED << predictVars, verifyVars, statsVars, featureVars, matchVars, rawVars, minutesVars, contextVars, registryVars >>

(* fetch_data stores the row of a player's next game, played by today *)
FetchGame(p) ==
    /\ Len(player_rows[p]) < MaxRows
    /\ GameDay(Len(player_rows[p]) + 1) <= clock
    /\ player_rows' =
           [player_rows EXCEPT ![p] = << GameRecord(Len(@) + 1) >> \o @]
    /\ UNCHANGED << clock, processed_table, snapshot_source, last_stored,
                    process_run, predict_run >>
    /\ UNCHANGED << predictVars, verifyVars, statsVars, featureVars, matchVars, rawVars, minutesVars, contextVars, registryVars >>

(* process_stats, one player of the loop: a player with a row dated in     *)
(* the last 7 days; the rows are read (limit 20)                           *)
ProcessRead(p) ==
    /\ process_run.pc = "idle"
    /\ \E i \in DOMAIN player_rows[p] :
          player_rows[p][i].game_date \in { DateKey(clock - d) : d \in 0..6 }
    /\ process_run' = [pc |-> "read", player_id |-> p, game_logs |-> Take(player_rows[p], 20)]
    /\ UNCHANGED << clock, player_rows, processed_table, snapshot_source, last_stored,
                    predict_run >>
    /\ UNCHANGED << predictVars, verifyVars, statsVars, featureVars, matchVars, rawVars, minutesVars, contextVars, registryVars >>

(* the same iteration: fewer than 3 rows are skipped, otherwise the item   *)
(* computed from the rows read replaces the item of (player, today)        *)
ProcessStore ==
    /\ process_run.pc = "read"
    /\ LET p == process_run.player_id
           logs == process_run.game_logs
           item == ProcessedItem(p, clock, logs)
           key == << p, DateKey(clock) >>
       IN  IF Len(logs) < 3
           THEN UNCHANGED << processed_table, snapshot_source, last_stored >>
           ELSE /\ processed_table' =
                       [k \in DOMAIN processed_table \cup { key } |->
                           IF k = key THEN item ELSE processed_table[k]]
                /\ snapshot_source' =
                       [k \in DOMAIN snapshot_source \cup { key } |->
                           IF k = key THEN logs ELSE snapshot_source[k]]
                /\ last_stored' = [last_stored EXCEPT ![p] = item]
    /\ process_run' = RunIdle
    /\ UNCHANGED << clock, player_rows, predict_run >>
    /\ UNCHANGED << predictVars, verifyVars, statsVars, featureVars, matchVars, rawVars, minutesVars, contextVars, registryVars >>

(* predict, one player of the loop: the latest ProcessedStats item is      *)
(* read; a player without one is skipped                                   *)
PredictReadProcessed(p) ==
    /\ predict_run.pc \in { "idle", "done" }
    /\ \E ml_available \in BOOLEAN :
          LET processed == get_processed_stats(processed_table, p)
          IN  predict_run' =
                  IF processed = NoItem
                  THEN [ pc |-> "done", player_id |-> p, processed |-> NoItem,
                         ml_available |-> ml_available, game_logs |-> << >>,
                         snapshot_rows |-> << >> ]
                  ELSE [ pc |-> "read", player_id |-> p, processed |-> processed,
                         ml_available |-> ml_available, game_logs |-> << >>,
                         snapshot_rows |->
                             snapshot_source[<< p, processed.processed_date >>] ]
    /\ UNCHANGED << clock, player_rows, processed_table, snapshot_source, last_stored,
                    process_run >>
    /\ UNCHANGED << predictVars, verifyVars, statsVars, featureVars, matchVars, rawVars, minutesVars, contextVars, registryVars >>

(* the same iteration: with models loaded the rows are read (limit 15)     *)
(* for the feature vector, then the predictions are made                   *)
PredictReadGameLogs ==
    /\ predict_run.pc = "read"
    /\ predict_run' =
           [predict_run EXCEPT
               !.pc = "done",
               !.game_logs = IF predict_run.ml_available
                             THEN Take(player_rows[predict_run.player_id], 15)
                             ELSE << >>]
    /\ UNCHANGED << clock, player_rows, processed_table, snapshot_source, last_stored,
                    process_run >>
    /\ UNCHANGED << predictVars, verifyVars, statsVars, featureVars, matchVars, rawVars, minutesVars, contextVars, registryVars >>

NextPipeline ==
    \/ Tick
    \/ \E p \in PipelinePlayers : FetchGame(p)
    \/ \E p \in PipelinePlayers : ProcessRead(p)
    \/ ProcessStore
    \/ \E p \in PipelinePlayers : PredictReadProcessed(p)
    \/ PredictReadGameLogs

SpecPipeline == InitPipeline /\ [][NextPipeline]_vars

(***************************************************************************)
(* C23: whatever runs came before, the prediction run reads for a player   *)
(* exactly the item written by the most recent processing run that stored  *)
(* one for that player (none when no run stored one): a later item         *)
(* supersedes the earlier one as a whole, a same-day re-run overwrites.    *)
(***************************************************************************)
C23_ReadsLatestSnapshot ==
    [][ (predict_run.pc \in { "idle", "done" } /\ predict_run' # predict_run) =>
            /\ predict_run'.processed = last_stored[predict_run'.player_id]
            /\ predict_run'.processed # NoItem =>
                   predict_run'.processed =
                       processed_table[<< predict_run'.player_id,
                                          predict_run'.processed.processed_date >>]
      ]_vars

(* the item of day 10, computed from 5 rows, is read while the item of    *)
(* day 9, computed from 3 rows, is still in the table                     *)
C23_Witness ==
    /\ predict_run.pc = "read"
    /\ predict_run.player_id = 1
    /\ << 1, DateKey(9) >> \in DOMAIN processed_table
    /\ << 1, DateKey(10) >> \in DOMAIN processed_table
    /\ processed_table[<< 1, DateKey(9) >>].games_analyzed = 3
    /\ predict_run.processed.processed_date = DateKey(10)
    /\ predict_run.processed.games_analyzed = 5
    /\ predict_run.processed.rolling_averages.last_5.pts = Rat(16, 10)

(***************************************************************************)
(* C28: in every interleaving of the fetch, processing and prediction      *)
(* runs, the ProcessedStats item a prediction run uses for a player was    *)
(* computed from the same game rows the run reads for the player's         *)
(* feature vector.                                                         *)
(***************************************************************************)
C28_SnapshotFromRowsRead ==
    ( /\ predict_run.pc = "done"
      /\ predict_run.processed # NoItem
      /\ predict_run.ml_available
      /\ Len(predict_run.game_logs) >= 5 ) =>
        predict_run.snapshot_rows = predict_run.game_logs

(***************************************************************************)
(* The verifier run again for the same date.  Every prediction has a line  *)
(* and a pick, every player a game row of the date; between runs           *)
(* fetch_data may store a player's row of the date again with corrected    *)
(* statistics (same key, put_item).                                        *)
(***************************************************************************)
PickedItems == { PropItem(k, PropLine, rec) : k \in PropKeys, rec \in { "OVER", "UNDER" } }

InitReverify ==
    /\ PredictIdle /\ StatsIdle /\ FeaturesIdle /\ MatchIdle /\ RawIdle /\ MinutesIdle /\ PipelineIdle /\ ContextIdle /\ RegistryIdle
    /\ predictions_table \in { t \in PredictionTables : \A n \in DOMAIN t : t[n] \in PickedItems }
    /\ stats_table \in { t \in StatsTables :
                           \A p \in VerifyPlayers : t[p] # << >> /\ t[p][1].date = CheckDate }
    /\ verify_pc = "start"
    /\ verify_i = 0
    /\ verification = NoResult
    /\ counters = ZeroCounters
    /\ results_table = << >>
    /\ summary = << >>

(* fetch_data: the row of the player's game of the date is stored again *)
GameRowCorrected(p) ==
    /\ \E row \in GameRows :
          /\ row # << >> /\ row[1].date = CheckDate
          /\ row # stats_table[p]
          /\ stats_table' = [stats_table EXCEPT ![p] = row]
    /\ UNCHANGED << predictions_table, verify_pc, verify_i, verification, counters,
                    results_table, summary >>
    /\ UNCHANGED << predictVars, statsVars, featureVars, matchVars, rawVars, minutesVars, pipelineVars, contextVars, registryVars >>

(* lambda_handler is invoked again for the date; the results table stays *)
VerifyAgain ==
    /\ verify_pc = "done"
    /\ verify_pc' = "start"
    /\ verify_i' = 0
    /\ verification' = NoResult
    /\ counters' = ZeroCounters
    /\ summary' = << >>
    /\ UNCHANGED << predictions_table, stats_table, results_table >>
    /\ UNCHANGED << predictVars, statsVars, featureVars, matchVars, rawVars, minutesVars, pipelineVars, contextVars, registryVars >>

NextReverify ==
    \/ VerifyStart
    \/ VerifyOne
    \/ VerifyFinish
    \/ \E p \in VerifyPlayers : GameRowCorrected(p)
    \/ VerifyAgain

SpecReverify == InitReverify /\ [][NextReverify]_vars

(***************************************************************************)
(* C24: a VerificationResult is created once and never mutated: once a     *)
(* result is stored for (date, player, statistic), no later step of any    *)
(* verifier run for the date alters it, also after the player's game row   *)
(* changed.                                                                *)
(***************************************************************************)
C24_StoredResultNeverAltered ==
    [][ \A k \in DOMAIN results_table :
            k \in DOMAIN results_table' /\ results_table'[k] = results_table[k] ]_vars

(***************************************************************************)
(* The consistency score of the log, against its definition.  With n      *)
(* values of sum S and spread d = n * (sum of squares) - S * S, the        *)
(* coefficient of variation is sqrt(d) / S; a score of a tenths says it    *)
(* is (1000 - a) / 1000.                                                   *)
(***************************************************************************)
ConsistencyRows == Take(game_logs, ConsistencyWindow)

RowsSum == SumTo(ConsistencyRows, Len(ConsistencyRows), "pts")

ScoreTenths == (stats_out.consistency[1] * 10) \div stats_out.consistency[2]

(* C25 as stated: the score is 50 below 3 records, 0 when the mean of the  *)
(* first min(10, N) records is 0, and otherwise exactly                    *)
(* (1 - stddev/mean) * 100 clamped to [0, 100]; it lies in 0..100.         *)
C25_ExactScore ==
    StatsDone =>
        LET n == Len(ConsistencyRows)
            S == RowsSum
            d == Spread(ConsistencyRows)
            t == 1000 - ScoreTenths
        IN  /\ n < 3 => stats_out.consistency = FromInt(50)
            /\ (n >= 3 /\ S = 0) => stats_out.consistency = Zero
            /\ (n >= 3 /\ S > 0 /\ d >= S * S) => stats_out.consistency = Zero
            /\ (n >= 3 /\ S > 0 /\ d < S * S) => t * t * S * S = 1000000 * d
            /\ RLe(Zero, stats_out.consistency) /\ RLe(stats_out.consistency, FromInt(100))

(* C25, amended: otherwise (1 - stddev/mean) * 100 rounded to one decimal  *)
(* and clamped to [0, 100]: the coefficient of variation lies within half  *)
(* a thousandth of (1000 - a) / 1000.                                      *)
C25_RoundedScore ==
    StatsDone =>
        LET n == Len(ConsistencyRows)
            S == RowsSum
            d == Spread(ConsistencyRows)
            t == 1000 - ScoreTenths
        IN  /\ n < 3 => stats_out.consistency = FromInt(50)
            /\ (n >= 3 /\ S = 0) => stats_out.consistency = Zero
            /\ (n >= 3 /\ S > 0 /\ d >= S * S) => stats_out.consistency = Zero
            /\ (n >= 3 /\ S > 0 /\ d < S * S) =>
                   /\ t >= 0
                   /\ t = 0 \/ (2 * t - 1) * (2 * t - 1) * S * S <= 4000000 * d
                   /\ 4000000 * d <= (2 * t + 1) * (2 * t + 1) * S * S
            /\ stats_out.consistency[2] \in { 1, 2, 5, 10 }
            /\ RLe(Zero, stats_out.consistency) /\ RLe(stats_out.consistency, FromInt(100))

(* points 1, 1, 2: mean 4/3, stddev 0.4714, score 64.6 (64.64466 exactly) *)
C25_Witness ==
    /\ StatsDone
    /\ Len(game_logs) = 3
    /\ RowsSum = 4
    /\ Spread(ConsistencyRows) = 2
    /\ stats_out.consistency = Rat(646, 10)

(***************************************************************************)
(* The feature builders on game rows whose dates are not in order: the     *)
(* rows come back ordered by sort key (GAME#<id>#<date>), and a date may   *)
(* be missing or unparsable.  A log of 5 or 11 home games; the dates of    *)
(* the latest game, of the game a training sample is built for (the 6th)   *)
(* and of the game before that one (the 7th) are missing, in order, or     *)
(* later than the reference date.                                          *)
(***************************************************************************)
(* a date is << day >>; << >> stands for a missing or unparsable one *)
DatedGame(date) == IF date = << >> THEN HomeGame ELSE HomeGame @@ [date |-> date]

LatestDates == { << >>, << LatestDay - 8 >>, << LatestDay >>, << LatestDay + 5 >> }

SampleDates == { << >>, << LatestDay - 20 >>, << LatestDay - 30 >>, << LatestDay - 40 >> }

DatedLogs ==
    { [k \in 1..5 |-> DatedGame(IF k = 1 THEN d ELSE << LatestDay - 10 * k >>)] : d \in LatestDates }
    \cup
    { [k \in 1..11 |-> DatedGame(CASE k = 1 -> d1 [] k = 6 -> d6 [] k = 7 -> d7
                                   [] OTHER -> << LatestDay - 10 * k >>)] :
        d1 \in LatestDates, d6 \in SampleDates, d7 \in SampleDates }

InitRestDays ==
    /\ PredictIdle /\ VerifyIdle /\ StatsIdle /\ MatchIdle /\ RawIdle /\ MinutesIdle /\ PipelineIdle /\ ContextIdle /\ RegistryIdle
    /\ player_games \in DatedLogs
    /\ feature_ctx = << >>
    /\ features_out = << >>
    /\ features_pc = "start"

SpecRestDays == InitRestDays /\ [][NextFeatures]_vars

(***************************************************************************)
(* C26: the rest-days slot of every emitted feature vector lies in         *)
(* [0, 7]: it is the day difference between the most recent prior game     *)
(* and the reference date (today at prediction time, the target game's     *)
(* date at training time) clamped to [0, 7], also when the prior game is   *)
(* dated after the reference date, and 1 when a date cannot be parsed.     *)
(***************************************************************************)
HasDate(g) == "date" \in DOMAIN g

ClampedRest(reference, prior) ==
    LET diff == reference - prior
    IN  FromInt(IF diff < 0 THEN 0 ELSE IF diff > 7 THEN 7 ELSE diff)

C26_RestDaysClamped ==
    /\ (features_pc = "online" /\ features_out # None) =>
          LET rest == features_out[SlotOf("rest_days")]
          IN  /\ RLe(Zero, rest) /\ RLe(rest, FromInt(7))
              /\ rest = IF HasDate(player_games[1])
                        THEN ClampedRest(feature_ctx.today, player_games[1].date[1])
                        ELSE FromInt(1)
    /\ features_pc = "training" =>
          \A stat \in STAT_TARGETS : \A k \in DOMAIN features_out[stat].X :
              LET rest == features_out[stat].X[k][SlotOf("rest_days")]
              IN  /\ RLe(Zero, rest) /\ RLe(rest, FromInt(7))
                  /\ rest = IF HasDate(SampleGame(k)) /\ HasDate(SamplePrior(k)[1])
                            THEN ClampedRest(SampleGame(k).date[1], SamplePrior(k)[1].date[1])
                            ELSE FromInt(1)

(* ------------------------------------------------------------------ *)
(* ContextResolver: compute_team_def_stats (predict) and               *)
(* compute_team_def_ratings (train_model).  The rows are those of one  *)
(* date of the lookback window, in the order the query returns them.   *)
(* ------------------------------------------------------------------ *)

MaxItems == 2

AllTeams == { "1", "2", "3" }

GameItems ==
    { [home_team_id |-> t[1], visitor_team_id |-> t[2], home_score |-> hs, visitor_score |-> 110] :
        t \in { << "1", "2" >>, << "2", "1" >> }, hs \in { 90, 100 } }

StatItems ==
    { [team_id |-> t, def_rating |-> a[1], pace |-> a[2]] :
        t \in { "1", "3" }, a \in { << 0, 98 >>, << 105, 0 >>, << 115, 102 >> } }

RECURSIVE SeqsUpTo(_, _)
SeqsUpTo(S, n) ==
    IF n = 0 THEN { << >> }
    ELSE LET shorter == SeqsUpTo(S, n - 1)
         IN shorter \cup { Append(q, x) : q \in shorter, x \in S }

RECURSIVE SumSamples(_)
SumSamples(samples) ==
    IF samples = << >> THEN 0 ELSE Head(samples) + SumSamples(Tail(samples))

(* sum(xs) / len(xs) if xs else default *)
MeanOr(samples, default) ==
    IF samples = << >> THEN FromInt(default) ELSE Rat(SumSamples(samples), Len(samples))

(* the pts_allowed list of one team after the loop over the game rows *)
RECURSIVE pts_allowed(_, _)
pts_allowed(games, tid) ==
    IF games = << >> THEN << >>
    ELSE LET game == Head(games)
         IN (IF game.home_team_id = tid THEN << game.visitor_score >> ELSE << >>)
            \o (IF game.visitor_team_id = tid THEN << game.home_score >> ELSE << >>)
            \o pts_allowed(Tail(games), tid)

GameTeams(games) ==
    { t \in AllTeams : \E k \in 1..Len(games) :
        games[k].home_team_id = t \/ games[k].visitor_team_id = t }

compute_team_def_stats(games) ==
    [tid \in GameTeams(games) |->
        [def_rating      |-> FromInt(110),
         pace            |-> FromInt(100),
         pts_allowed_avg |-> MeanOr(pts_allowed(games, tid), 110)]]

(* The loop over the player rows of one date.  team_stats[team_id] is  *)
(* created only under the def_rating test; appending a pace to a team  *)
(* that has no entry raises KeyError, which the enclosing try catches: *)
(* the remaining rows of the date are skipped.                         *)
RECURSIVE AdvancedSamples(_, _)
AdvancedSamples(items, team_stats) ==
    IF items = << >> THEN team_stats
    ELSE LET item == Head(items)
             team_id == item.team_id
             rated ==
                 IF team_id # "" /\ item.def_rating > 0
                 THEN [team_stats EXCEPT
                          !.teams = @ \cup { team_id },
                          !.def_ratings[team_id] = Append(@, item.def_rating)]
                 ELSE team_stats
         IN IF team_id # "" /\ item.pace > 0
            THEN IF team_id \in rated.teams
                 THEN AdvancedSamples(Tail(items),
                          [rated EXCEPT !.paces[team_id] = Append(@, item.pace)])
                 ELSE rated
            ELSE AdvancedSamples(Tail(items), rated)

compute_team_def_ratings(games, items) ==
    LET team_stats ==
            AdvancedSamples(items,
                [teams       |-> GameTeams(games),
                 def_ratings |-> [t \in AllTeams |-> << >>],
                 paces       |-> [t \in AllTeams |-> << >>]])
    IN [tid \in team_stats.teams |->
           [def_rating      |-> MeanOr(team_stats.def_ratings[tid], 110),
            pace            |-> MeanOr(team_stats.paces[tid], 100),
            pts_allowed_avg |-> MeanOr(pts_allowed(games, tid), 110)]]

InitContext ==
    /\ game_items \in SeqsUpTo(GameItems, MaxItems)
    /\ stat_items \in SeqsUpTo(StatItems, MaxItems)
    /\ context_out = << >>
    /\ context_pc = "idle"
    /\ PredictIdle /\ VerifyIdle /\ StatsIdle /\ FeaturesIdle /\ MatchIdle /\ RawIdle /\ MinutesIdle /\ PipelineIdle /\ RegistryIdle

CallComputeTeamDefStats ==
    /\ context_pc = "idle"
    /\ context_out' = compute_team_def_stats(game_items)
    /\ context_pc' = "predict"
    /\ UNCHANGED << game_items, stat_items >>
    /\ UNCHANGED << predictVars, verifyVars, statsVars, featureVars, matchVars, rawVars, minutesVars, pipelineVars, registryVars >>

CallComputeTeamDefRatings ==
    /\ context_pc = "idle"
    /\ context_out' = compute_team_def_ratings(game_items, stat_items)
    /\ context_pc' = "train"
    /\ UNCHANGED << game_items, stat_items >>
    /\ UNCHANGED << predictVars, verifyVars, statsVars, featureVars, matchVars, rawVars, minutesVars, pipelineVars, registryVars >>

NextContext == CallComputeTeamDefStats \/ CallComputeTeamDefRatings

SpecContext == InitContext /\ [][NextContext]_vars

(* the samples the rows hold for one team: a rating or pace of 0 is a  *)
(* metric the row does not carry                                       *)
RECURSIVE SamplesOf(_, _, _)
SamplesOf(items, tid, field) ==
    IF items = << >> THEN << >>
    ELSE (IF Head(items).team_id = tid /\ Head(items)[field] > 0
          THEN << Head(items)[field] >> ELSE << >>)
         \o SamplesOf(Tail(items), tid, field)

SnapshotOf(tid) ==
    [def_rating      |-> MeanOr(SamplesOf(stat_items, tid, "def_rating"), 110),
     pace            |-> MeanOr(SamplesOf(stat_items, tid, "pace"), 100),
     pts_allowed_avg |-> MeanOr(pts_allowed(game_items, tid), 110)]

(* C27: in the result of either resolver, each aggregate of each team  *)
(* is the simple mean of that team's samples, and the defaults 110.0 / *)
(* 100.0 / 110.0 stand only for an aggregate with no sample.           *)
C27_AggregatesAreMeans ==
    context_pc \in { "predict", "train" } =>
        \A tid \in DOMAIN context_out : context_out[tid] = SnapshotOf(tid)

(* the target game as the feature builder may see it: where and when   *)
(* it is played, none of its statistics                                *)
ContextOf(game) ==
    [f \in DOMAIN game \cap { "is_home", "opponent_id", "team_abbr", "date" } |-> game[f]]

TrainingLog == Take(player_games, 50)

(* sample k of a player is the game at position k + 5 of the log *)
TargetOf(k) == TrainingLog[k + 5]

OlderThan(k) == SubSeq(TrainingLog, k + 6, Len(TrainingLog))

(* C29: every training sample's feature vector is the one built from   *)
(* the games after the target in the most-recent-first log and from    *)
(* the target's context only: neither the target's statistics nor a    *)
(* more recent game enter the features that go with the target's       *)
(* value.                                                              *)
C29_FeaturesFromOlderGames ==
    features_pc = "training" =>
        \A stat \in STAT_TARGETS :
            \A k \in DOMAIN features_out[stat].X :
                /\ k + 5 <= Len(TrainingLog)
                /\ features_out[stat].y[k] = FieldOf(TargetOf(k), stat)
                /\ features_out[stat].X[k] =
                       build_features(OlderThan(k), ContextOf(TargetOf(k)),
                                      TeamDefStats, InjuryCounts)

(* two samples, and the first target's points differ from those of the *)
(* game before it, so that a vector built with the target would differ *)
C29_Witness ==
    /\ features_pc = "training"
    /\ Len(features_out["pts"].X) >= 2
    /\ TargetOf(1).pts # OlderThan(1)[1].pts
    /\ features_out["pts"].X[1] #
           build_features(SubSeq(TrainingLog, 6, Len(TrainingLog)), TargetOf(1),
                          TeamDefStats, InjuryCounts)

(* ------------------------------------------------------------------ *)
(* The model registry of one predict process: _ml_models,              *)
(* _models_loaded and load_ml_models.  bucket_models[stat] is the      *)
(* version of the pickled model the bucket holds for stat, 0 when      *)
(* get_object or pickle.loads would raise.  train_model runs outside   *)
(* the process and may store models between two calls.                 *)
(* ------------------------------------------------------------------ *)

MaxVersion == 1

MaxCalls == 3

NoAttempts == [stat \in STAT_TARGETS |-> 0]

(* the registry after the loop over STAT_TARGETS: a stat whose load    *)
(* raises keeps what the registry held, the loop goes on               *)
LoadedModels_StopAtFailure(registry, bucket) ==
    LET failed == { k \in DOMAIN STAT_ORDER : bucket[STAT_ORDER[k]] = 0 }
        loaded == { STAT_ORDER[k] : k \in { j \in DOMAIN STAT_ORDER :
                                              \A f \in failed : j < f } }
    IN [stat \in DOMAIN registry \cup loaded |->
           IF stat \in loaded THEN bucket[stat] ELSE registry[stat]]

LoadedModels(registry, bucket) ==
    LET loaded == { stat \in STAT_TARGETS : bucket[stat] > 0 }
    IN [stat \in DOMAIN registry \cup loaded |->
           IF stat \in loaded THEN bucket[stat] ELSE registry[stat]]

InitRegistry ==
    /\ RAW_DATA_BUCKET \in { "", "nba-raw-data" }
    /\ bucket_models \in [STAT_TARGETS -> 0..MaxVersion]
    /\ ml_models = << >>
    /\ models_loaded = FALSE
    /\ load_attempts = NoAttempts
    /\ load_returned = << >>
    /\ PredictIdle /\ VerifyIdle /\ StatsIdle /\ FeaturesIdle /\ MatchIdle /\ RawIdle /\ MinutesIdle /\ PipelineIdle /\ ContextIdle

(* one call of load_ml_models; load_returned records what each call returned *)
load_ml_models ==
    /\ Len(load_returned) < MaxCalls
    /\ IF models_loaded
       THEN /\ load_returned' = Append(load_returned, ml_models)
            /\ UNCHANGED << ml_models, models_loaded, load_attempts >>
       ELSE IF RAW_DATA_BUCKET = ""
       THEN /\ models_loaded' = TRUE
            /\ load_returned' = Append(load_returned, ml_models)
            /\ UNCHANGED << ml_models, load_attempts >>
       ELSE /\ ml_models' = LoadedModels(ml_models, bucket_models)
            /\ load_attempts' = [stat \in STAT_TARGETS |-> load_attempts[stat] + 1]
            /\ models_loaded' = TRUE
            /\ load_returned' = Append(load_returned, ml_models')
    /\ UNCHANGED << RAW_DATA_BUCKET, bucket_models >>
    /\ UNCHANGED << predictVars, verifyVars, statsVars, featureVars, matchVars, rawVars, minutesVars, pipelineVars, contextVars >>

(* train_model stores a newly trained model for one stat *)
save_models_to_s3(stat) ==
    /\ RAW_DATA_BUCKET # ""
    /\ bucket_models[stat] < MaxVersion
    /\ bucket_models' = [bucket_models EXCEPT ![stat] = @ + 1]
    /\ UNCHANGED << RAW_DATA_BUCKET, ml_models, models_loaded, load_attempts, load_returned >>
    /\ UNCHANGED << predictVars, verifyVars, statsVars, featureVars, matchVars, rawVars, minutesVars, pipelineVars, contextVars >>

NextRegistry == load_ml_models \/ (\E stat \in STAT_TARGETS : save_models_to_s3(stat))

SpecRegistry == InitRegistry /\ [][NextRegistry]_vars

IsLoadCall == Len(load_returned') = Len(load_returned) + 1

(* a call after the first: same registry returned, no load attempted *)
LaterCallReuses ==
    (IsLoadCall /\ Len(load_returned) >= 1) =>
        /\ load_attempts' = load_attempts
        /\ ml_models' = ml_models
        /\ load_returned'[Len(load_returned')] = load_returned[1]

(* the first call with a bucket: every stat is attempted once, and it  *)
(* is registered exactly when its own load succeeds                    *)
FirstCallLoadsEach ==
    /\ \A stat \in STAT_TARGETS : load_attempts'[stat] = 1
    /\ DOMAIN ml_models' = { stat \in STAT_TARGETS : bucket_models[stat] > 0 }
    /\ \A stat \in DOMAIN ml_models' : ml_models'[stat] = bucket_models[stat]
    /\ load_returned' = << ml_models' >>

(* C30 as stated: the first call attempts each of the four models,     *)
(* one's failure not stopping the others, and every later call returns *)
(* the same registry without a further attempt.                        *)
C30_FirstCallAttemptsAll ==
    [][ /\ (IsLoadCall /\ Len(load_returned) = 0) => FirstCallLoadsEach
        /\ LaterCallReuses ]_vars

(* C30: the registry is populated at most once per process.  With      *)
(* RAW_DATA_BUCKET set the first call attempts each of the four models *)
(* independently; without it the first call attempts none and leaves   *)
(* the registry empty.  Every later call returns the same registry     *)
(* without a further attempt, whatever failed and whatever the bucket  *)
(* holds by then.                                                      *)
C30_PopulatedOnce ==
    [][ /\ (IsLoadCall /\ Len(load_returned) = 0) =>
               IF RAW_DATA_BUCKET # "" THEN FirstCallLoadsEach
               ELSE /\ load_attempts' = NoAttempts
                    /\ ml_models' = << >>
                    /\ load_returned' = << << >> >>
        /\ LaterCallReuses ]_vars

(* two calls returned; the first loaded pts, failed on reb and went on *)
(* to load ast; reb has been stored since and is still not registered  *)
C30_Witness ==
    /\ Len(load_returned) >= 2
    /\ DOMAIN ml_models = { "pts", "ast" }
    /\ bucket_models["reb"] > 0
    /\ load_attempts["reb"] = 1
    /\ load_returned[2] = load_returned[1]

====
